---- MODULE Spec2Model ----
(***************************************************************************)
(* DNS monitor worker (dns-bot-discord): the scheduled observation loop,   *)
(* the per-domain check, the intelligent dampening pipeline and the        *)
(* command surface, modelled over the key/value store.                     *)
(*                                                                         *)
(* Time is in milliseconds since the epoch, as Date.now() gives it.  All   *)
(* Date.now() reads made while one domain is checked are taken to return   *)
(* the same instant.  The key/value store is reliable (get/put/delete      *)
(* succeed); the resolver and the Discord webhook may fail.                *)
(***************************************************************************)
EXTENDS Integers, Sequences, FiniteSets, TLC

\* ------------------------------------------------------------------------
\* Bounds of the model
\* ------------------------------------------------------------------------
MaxTicks == 2
MaxCmds == 1
MaxCalls == 3

\* ------------------------------------------------------------------------
\* Program constants
\* ------------------------------------------------------------------------
Minute == 60 * 1000
oneHour == 60 * 60 * 1000
OneDay == 24 * 60 * 60 * 1000
minDampening == 1 * 60 * 1000
maxDampening == 4 * 60 * 60 * 1000
autoSuppressPeriod == 4 * 60 * 60 * 1000
OscillationCdnLb == 2 * 60 * 60 * 1000
OscillationOther == 30 * 60 * 1000
OscillationLookback == 24 * 60 * 60 * 1000
SevenDays == 7 * 24 * 60 * 60 * 1000
MaxRecent == 10
timeWindow == 10 * 60 * 1000
BucketWidth == 5 * 60 * 1000
GlobalTtl == 60 * 60 * 1000
DefaultTtl == 300

\* ------------------------------------------------------------------------
\* Values: IPv4 addresses are 4-tuples of octets, domains are sequences of
\* labels.  Strings are compared as JavaScript compares them (by code unit),
\* on the dotted-decimal rendering of the address.
\* ------------------------------------------------------------------------
IpA == <<5, 5, 5, 5>>
IpB == <<9, 9, 9, 9>>
IpC == <<104, 16, 0, 1>>
IpD == <<10, 0, 0, 1>>
IpE == <<151, 101, 1, 1>>
IpF == <<8, 8, 8, 8>>
IpG == <<1, 2, 3, 4>>

D1 == <<"a", "ex", "com">>
D2 == <<"b", "ex", "com">>
Domains == {D1, D2}

\* decimal digits of a number below 256, as character codes
Digits(n) ==
  IF n < 10 THEN <<48 + n>>
  ELSE IF n < 100 THEN <<48 + (n \div 10), 48 + (n % 10)>>
  ELSE <<48 + (n \div 100), 48 + ((n \div 10) % 10), 48 + (n % 10)>>

\* the dotted-decimal string of an address, as character codes
IpStr(ip) ==
  Digits(ip[1]) \o <<46>> \o Digits(ip[2]) \o <<46>> \o Digits(ip[3]) \o <<46>> \o Digits(ip[4])

RECURSIVE StrLess(_, _)
StrLess(s, t) ==
  IF t = <<>> THEN FALSE
  ELSE IF s = <<>> THEN TRUE
  ELSE IF Head(s) # Head(t) THEN Head(s) < Head(t)
  ELSE StrLess(Tail(s), Tail(t))

\* Array.prototype.sort() without comparator, on address strings
RECURSIVE InsertIp(_, _)
InsertIp(ip, sorted) ==
  IF sorted = <<>> THEN <<ip>>
  ELSE IF StrLess(IpStr(ip), IpStr(Head(sorted))) THEN <<ip>> \o sorted
  ELSE <<Head(sorted)>> \o InsertIp(ip, Tail(sorted))

\* no sorting at all
SortIpsNone(ips) == ips

RECURSIVE SortIps(_)
SortIps(ips) ==
  IF ips = <<>> THEN <<>> ELSE InsertIp(Head(ips), SortIps(Tail(ips)))

IsSortedIps(ips) ==
  \A i \in 1..(Len(ips) - 1) : ~StrLess(IpStr(ips[i + 1]), IpStr(ips[i]))

Range(s) == {s[i] : i \in 1..Len(s)}

RECURSIVE SelectSeqIdx(_, _, _)
SelectSeqIdx(s, keep, i) ==
  IF i > Len(s) THEN <<>>
  ELSE (IF s[i] \in keep THEN <<s[i]>> ELSE <<>>) \o SelectSeqIdx(s, keep, i + 1)

Max2(a, b) == IF a >= b THEN a ELSE b
Min2(a, b) == IF a <= b THEN a ELSE b

RECURSIVE Gcd(_, _)
Gcd(a, b) == IF b = 0 THEN a ELSE Gcd(b, a % b)

\* ------------------------------------------------------------------------
\* IntelligentCDNDetector
\* ------------------------------------------------------------------------
\* the 32-bit unsigned number of an address, kept as its two 16-bit halves
ipToNumber(ip) == <<(ip[1] % 256) * 256 + (ip[2] % 256), (ip[3] % 256) * 256 + (ip[4] % 256)>>

NumLeq(a, b) == a[1] < b[1] \/ (a[1] = b[1] /\ a[2] <= b[2])

ENHANCED_CDN_RANGES ==
  << <<"Cloudflare", <<104, 16, 0, 0>>, <<104, 31, 255, 255>>>>,
     <<"Cloudflare", <<172, 64, 0, 0>>, <<172, 71, 255, 255>>>>,
     <<"Cloudflare", <<108, 162, 192, 0>>, <<108, 162, 255, 255>>>>,
     <<"Cloudflare", <<190, 93, 240, 0>>, <<190, 93, 255, 255>>>>,
     <<"Cloudflare", <<188, 114, 96, 0>>, <<188, 114, 127, 255>>>>,
     <<"AWS", <<13, 32, 0, 0>>, <<13, 35, 255, 255>>>>,
     <<"AWS", <<13, 224, 0, 0>>, <<13, 227, 255, 255>>>>,
     <<"AWS", <<13, 249, 0, 0>>, <<13, 249, 255, 255>>>>,
     <<"AWS", <<52, 84, 0, 0>>, <<52, 85, 255, 255>>>>,
     <<"AWS", <<54, 230, 0, 0>>, <<54, 239, 255, 255>>>>,
     <<"AWS", <<204, 246, 164, 0>>, <<204, 246, 191, 255>>>>,
     <<"AWS", <<205, 251, 192, 0>>, <<205, 251, 255, 255>>>>,
     <<"Fastly", <<23, 235, 32, 0>>, <<23, 235, 63, 255>>>>,
     <<"Fastly", <<151, 101, 0, 0>>, <<151, 101, 255, 255>>>>,
     <<"Fastly", <<199, 232, 0, 0>>, <<199, 232, 255, 255>>>>,
     <<"Google", <<35, 186, 0, 0>>, <<35, 191, 255, 255>>>>,
     <<"Google", <<130, 211, 0, 0>>, <<130, 211, 255, 255>>>>,
     <<"Google", <<35, 244, 0, 0>>, <<35, 247, 255, 255>>>>,
     <<"Azure", <<40, 90, 0, 0>>, <<40, 91, 255, 255>>>>,
     <<"Azure", <<13, 107, 42, 0>>, <<13, 107, 43, 255>>>>,
     <<"Azure", <<204, 79, 197, 0>>, <<204, 79, 197, 255>>>>,
     <<"KeyCDN", <<119, 81, 0, 0>>, <<119, 81, 255, 255>>>>,
     <<"StackPath", <<94, 31, 0, 0>>, <<94, 31, 255, 255>>>>,
     <<"Imperva", <<149, 126, 72, 0>>, <<149, 126, 79, 255>>>>,
     <<"Imperva", <<185, 11, 124, 0>>, <<185, 11, 127, 255>>>> >>

\* index of the first range holding the address, 0 when none does
FirstRange(ip) ==
  LET hits == {i \in 1..Len(ENHANCED_CDN_RANGES) :
                 /\ NumLeq(ipToNumber(ENHANCED_CDN_RANGES[i][2]), ipToNumber(ip))
                 /\ NumLeq(ipToNumber(ip), ipToNumber(ENHANCED_CDN_RANGES[i][3]))}
  IN IF hits = {} THEN 0 ELSE CHOOSE i \in hits : \A j \in hits : i <= j

\* a detector that counts only the addresses of the provider detected first
detectProviderFirstProvider(ips) ==
  LET hitIdx == {i \in 1..Len(ips) : FirstRange(ips[i]) # 0}
      totalIPs == Len(ips)
      firstHit == IF hitIdx = {} THEN 0 ELSE CHOOSE i \in hitIdx : \A j \in hitIdx : i <= j
      detectedProvider == IF firstHit = 0 THEN "none"
                          ELSE ENHANCED_CDN_RANGES[FirstRange(ips[firstHit])][1]
      matches == Cardinality({i \in hitIdx :
                                ENHANCED_CDN_RANGES[FirstRange(ips[i])][1] = detectedProvider})
  IN [provider |-> IF 2 * matches > totalIPs THEN detectedProvider ELSE "none",
      matches |-> matches,
      totalIPs |-> totalIPs,
      isAnyCDN |-> totalIPs > 0 /\ matches > 0]

\* confidence is the fraction matches / totalIPs (0 for no address)
detectProvider(ips) ==
  LET hitIdx == {i \in 1..Len(ips) : FirstRange(ips[i]) # 0}
      matches == Cardinality(hitIdx)
      totalIPs == Len(ips)
      firstHit == IF hitIdx = {} THEN 0 ELSE CHOOSE i \in hitIdx : \A j \in hitIdx : i <= j
      detectedProvider == IF firstHit = 0 THEN "none"
                          ELSE ENHANCED_CDN_RANGES[FirstRange(ips[firstHit])][1]
  IN [provider |-> IF 2 * matches > totalIPs THEN detectedProvider ELSE "none",
      matches |-> matches,
      totalIPs |-> totalIPs,
      isAnyCDN |-> totalIPs > 0 /\ matches > 0]

\* ------------------------------------------------------------------------
\* LoadBalancerIntelligence
\* ------------------------------------------------------------------------
\* confidence is a fraction <<numerator, denominator>>
NoLb == [isLoadBalancer |-> FALSE, pattern |-> "unknown", confidence |-> <<0, 1>>]

RECURSIVE SumSeq(_)
SumSeq(s) == IF s = <<>> THEN 0 ELSE Head(s) + SumSeq(Tail(s))

\* the entries of a history newer than a horizon, in order
Newer(sets, now, horizon) ==
  SelectSeqIdx(sets, {sets[i] : i \in {j \in 1..Len(sets) : now - sets[j].timestamp < horizon}}, 1)

\* a classifier that looks for the large gap before the rotation
analyzePatternGapFirst(recentIPSets, now) ==
  IF Len(recentIPSets) < 3 THEN NoLb
  ELSE
    LET recentSets == Newer(recentIPSets, now, oneHour)
        sigs == {SortIps(recentSets[i].ips) : i \in 1..Len(recentSets)}
        timeGaps == [i \in 1..(Len(recentSets) - 1) |->
                       recentSets[i + 1].timestamp - recentSets[i].timestamp]
        hasLargeGap == \E i \in 1..Len(timeGaps) : timeGaps[i] * Len(timeGaps) > SumSeq(timeGaps) * 3
    IN IF Len(recentSets) < 3 THEN NoLb
       ELSE IF hasLargeGap /\ Cardinality(sigs) <= 2
         THEN [isLoadBalancer |-> TRUE, pattern |-> "failover", confidence |-> <<6, 10>>]
       ELSE IF Len(recentSets) >= 5 /\ Cardinality(sigs) <= 3 /\ Cardinality(sigs) >= 2
         THEN [isLoadBalancer |-> TRUE, pattern |-> "round_robin", confidence |-> <<8, 10>>]
       ELSE NoLb

\* a classifier whose rotation rule already fires from three entries on
analyzePatternFromThree(recentIPSets, now) ==
  IF Len(recentIPSets) < 3 THEN NoLb
  ELSE
    LET recentSets == Newer(recentIPSets, now, oneHour)
        sigs == {SortIps(recentSets[i].ips) : i \in 1..Len(recentSets)}
    IN IF Len(recentSets) >= 3 /\ Cardinality(sigs) <= 3 /\ Cardinality(sigs) >= 2
         THEN [isLoadBalancer |-> TRUE, pattern |-> "round_robin", confidence |-> <<8, 10>>]
         ELSE NoLb

analyzePattern(recentIPSets, now) ==
  IF Len(recentIPSets) < 3 THEN NoLb
  ELSE
    LET recentSets == Newer(recentIPSets, now, oneHour)
        totalChanges == Len(recentSets)
        sigs == {SortIps(recentSets[i].ips) : i \in 1..Len(recentSets)}
        uniqueCount == Cardinality(sigs)
        freq(sg) == Cardinality({i \in 1..Len(recentSets) : SortIps(recentSets[i].ips) = sg})
        top == CHOOSE sg \in sigs : \A o \in sigs : freq(sg) >= freq(o)
        second == CHOOSE sg \in sigs \ {top} : \A o \in sigs \ {top} : freq(sg) >= freq(o)
        timeGaps == [i \in 1..(Len(recentSets) - 1) |->
                       recentSets[i + 1].timestamp - recentSets[i].timestamp]
        \* gap > avgGap * 3, with avgGap = sum / count
        hasLargeGap == \E i \in 1..Len(timeGaps) : timeGaps[i] * Len(timeGaps) > SumSeq(timeGaps) * 3
    IN IF Len(recentSets) < 3 THEN NoLb
       ELSE IF totalChanges >= 5 /\ uniqueCount <= 3 /\ uniqueCount >= 2
         THEN [isLoadBalancer |-> TRUE, pattern |-> "round_robin", confidence |-> <<8, 10>>]
       ELSE IF uniqueCount >= 2 /\ uniqueCount <= 4 /\ 2 * freq(top) > 3 * freq(second)
         THEN [isLoadBalancer |-> TRUE, pattern |-> "weighted", confidence |-> <<7, 10>>]
       ELSE IF hasLargeGap /\ uniqueCount <= 2
         THEN [isLoadBalancer |-> TRUE, pattern |-> "failover", confidence |-> <<6, 10>>]
       ELSE NoLb

\* ------------------------------------------------------------------------
\* TemporalAnalyzer
\* ------------------------------------------------------------------------
getUTCHours(now) == (now \div oneHour) % 24

\* 0 is Sunday; 1 January 1970 was a Thursday
getUTCDay(now) == ((now \div OneDay) + 4) % 7

analyzeTimePatterns(now) ==
  LET currentHour == getUTCHours(now)
      isWeekend == getUTCDay(now) = 0 \/ getUTCDay(now) = 6
      isMaintenanceWindow == (currentHour >= 2 /\ currentHour <= 6) \/ (currentHour >= 22 \/ currentHour <= 2)
      isBusinessHours == currentHour >= 8 /\ currentHour <= 18 /\ ~isWeekend
  IN [isMaintenanceWindow |-> isMaintenanceWindow,
      isBusinessHours |-> isBusinessHours,
      isWeekend |-> isWeekend,
      timePattern |-> IF isMaintenanceWindow THEN "maintenance_window"
                      ELSE IF ~isBusinessHours THEN "off_hours"
                      ELSE IF isWeekend THEN "weekend"
                      ELSE "normal"]

\* ------------------------------------------------------------------------
\* ChangeAnalyzer
\* ------------------------------------------------------------------------
\* a classifier whose severity starts at medium for every change type
analyzeChangeFromMedium(previousIPs, currentIPs, ttl, now) ==
  LET prev == Range(previousIPs)
      cur == Range(currentIPs)
      differs == Len(previousIPs) # Len(currentIPs) \/ ~(prev \subseteq cur)
      changeType == IF Len(previousIPs) = 0 THEN "addition"
                    ELSE IF Len(currentIPs) = 0 THEN "removal"
                    ELSE IF differs /\ prev \cap cur = {} THEN "complete_change"
                    ELSE "replacement"
      timeInfo == analyzeTimePatterns(now)
      severity == IF changeType = "complete_change" /\ timeInfo.isBusinessHours THEN "critical"
                  ELSE IF changeType = "removal" THEN "high"
                  ELSE IF timeInfo.isMaintenanceWindow THEN "low"
                  ELSE "medium"
  IN [timestamp |-> now, ttl |-> ttl, changeType |-> changeType, severity |-> severity]

analyzeChange(previousIPs, currentIPs, ttl, now) ==
  LET prev == Range(previousIPs)
      cur == Range(currentIPs)
      differs == Len(previousIPs) # Len(currentIPs) \/ ~(prev \subseteq cur)
      changeType == IF Len(previousIPs) = 0 THEN "addition"
                    ELSE IF Len(currentIPs) = 0 THEN "removal"
                    ELSE IF differs /\ prev \cap cur = {} THEN "complete_change"
                    ELSE "replacement"
      first == IF changeType = "removal" \/ changeType = "complete_change" THEN "high" ELSE "medium"
      timeInfo == analyzeTimePatterns(now)
      severity == IF changeType = "complete_change" /\ timeInfo.isBusinessHours THEN "critical"
                  ELSE IF changeType = "removal" THEN "high"
                  ELSE IF timeInfo.isMaintenanceWindow THEN "low"
                  ELSE first
  IN [timestamp |-> now, ttl |-> ttl, changeType |-> changeType, severity |-> severity]

\* ------------------------------------------------------------------------
\* EnhancedDampeningCalculator.  The multiplier is an exact fraction
\* <<numerator, denominator>>, kept in lowest terms; the program multiplies
\* floating-point numbers, whose product can fall on the other side of a
\* half and round to the neighbouring millisecond.
\* ------------------------------------------------------------------------
Times(m, n, d) ==
  LET a == m[1] * n
      b == m[2] * d
      g == Gcd(a, b)
  IN <<a \div g, b \div g>>

\* Math.round of the fraction n / d, for n >= 0 and d > 0
MathRound(n, d) == IF 2 * (n % d) >= d THEN (n \div d) + 1 ELSE n \div d

\* thresholds that take the boundary value into the lower band
getBaseDampeningInclusive(ttl) ==
  IF ttl <= 60 THEN 20 * 60 * 1000
  ELSE IF ttl <= 300 THEN 15 * 60 * 1000
  ELSE IF ttl <= 900 THEN Max2(ttl * 2 * 1000, 5 * 60 * 1000)
  ELSE Max2(ttl * 1000, 5 * 60 * 1000)

getBaseDampening(ttl) ==
  IF ttl < 60 THEN 20 * 60 * 1000
  ELSE IF ttl < 300 THEN 15 * 60 * 1000
  ELSE IF ttl < 900 THEN Max2(ttl * 2 * 1000, 5 * 60 * 1000)
  ELSE Max2(ttl * 1000, 5 * 60 * 1000)

CdnFactor(m, cdnInfo) ==
  IF cdnInfo.isAnyCDN
    THEN (IF 5 * cdnInfo.matches > 4 * cdnInfo.totalIPs THEN Times(m, 2, 1) ELSE Times(m, 3, 2))
    ELSE m

LbFactor(m, lbInfo) ==
  IF lbInfo.isLoadBalancer
    THEN (IF lbInfo.pattern = "round_robin" THEN Times(m, 3, 1)
          ELSE IF lbInfo.pattern = "weighted" THEN Times(m, 2, 1)
          ELSE IF lbInfo.pattern = "failover" THEN Times(m, 1, 2)
          ELSE Times(m, 3, 2))
    ELSE m

\* a calculator that leaves the time of day out
TimeFactorNone(m, timeInfo) == m

TimeFactor(m, timeInfo) ==
  IF timeInfo.isMaintenanceWindow THEN Times(m, 3, 2)
  ELSE IF timeInfo.isBusinessHours THEN Times(m, 4, 5)
  ELSE m

SeverityFactor(m, severity) ==
  IF severity = "critical" THEN Times(m, 3, 10)
  ELSE IF severity = "high" THEN Times(m, 3, 5)
  ELSE IF severity = "low" THEN Times(m, 2, 1)
  ELSE m

FrequencyFactor(m, recentIPSets, now) ==
  LET recentChanges == Newer(recentIPSets, now, oneHour)
  IN IF Len(recentChanges) >= 5 THEN Times(m, 4, 1)
     ELSE IF Len(recentChanges) >= 3 THEN Times(m, 2, 1)
     ELSE m

Multiplier(context, cdnInfo, lbInfo, timeInfo, recentIPSets, now) ==
  FrequencyFactor(
    SeverityFactor(
      TimeFactor(LbFactor(CdnFactor(<<1, 1>>, cdnInfo), lbInfo), timeInfo),
      context.severity),
    recentIPSets, now)

\* the clamp without its upper bound
ClampNoMax(finalDampening) == Max2(finalDampening, minDampening)

Clamp(finalDampening) == Min2(Max2(finalDampening, minDampening), maxDampening)

calculateIntelligentDampening(context, cdnInfo, lbInfo, timeInfo, recentIPSets, now) ==
  LET baseDampening == getBaseDampening(context.ttl)
      multiplier == Multiplier(context, cdnInfo, lbInfo, timeInfo, recentIPSets, now)
      finalDampening == MathRound(baseDampening * multiplier[1], multiplier[2])
  IN Clamp(finalDampening)

\* ------------------------------------------------------------------------
\* The key/value store.  kv.state and kv.serial hold "" for an absent key
\* (a stored value is never empty); the other keys carry a presence flag.
\* Keys written with expirationTtl carry their expiry instant.
\* ------------------------------------------------------------------------
NoIps == [has |-> FALSE, val |-> <<>>]
NoLast == [has |-> FALSE, val |-> 0, exp |-> 0]
\* ok: the stored text is what JSON.stringify wrote, so JSON.parse reads it
NoRecent == [has |-> FALSE, val |-> <<>>, exp |-> 0, ok |-> TRUE]

EmptyStore ==
  [state |-> [d \in Domains |-> ""],
   ips |-> [d \in Domains |-> NoIps],
   serial |-> [d \in Domains |-> ""],
   nlast |-> [d \in Domains |-> NoLast],
   recent |-> [d \in Domains |-> NoRecent],
   dyn |-> <<>>,
   global |-> {},
   version |-> ""]

\* what a key written with an expirationTtl becomes once the clock reaches t
Expire(store, t) ==
  [store EXCEPT
     !.nlast = [d \in Domains |-> IF store.nlast[d].has /\ store.nlast[d].exp <= t
                                   THEN NoLast ELSE store.nlast[d]],
     !.recent = [d \in Domains |-> IF store.recent[d].has /\ store.recent[d].exp <= t
                                    THEN NoRecent ELSE store.recent[d]],
     !.global = {g \in store.global : g.exp > t}]

\* notify:<d>:last as parseInt reads it, 0 when the key is absent
LastNotifyTime(store, d) == IF store.nlast[d].has THEN store.nlast[d].val ELSE 0

RecentSets(store, d) == IF store.recent[d].has THEN store.recent[d].val ELSE <<>>

\* JSON.parse of notify:<d>:recent_ips throws
ParseThrows(store, d) == store.recent[d].has /\ ~store.recent[d].ok

\* a write of the time elapsed since the last notification, not of the instant
PutLastElapsed(store, d, now) ==
  [store EXCEPT !.nlast[d] = [has |-> TRUE, val |-> now - LastNotifyTime(store, d),
                              exp |-> now + SevenDays]]

PutLast(store, d, now) ==
  [store EXCEPT !.nlast[d] = [has |-> TRUE, val |-> now, exp |-> now + SevenDays]]

\* the last n elements of a sequence: Array.prototype.slice(-n)
SliceLast(s, n) == IF Len(s) <= n THEN s ELSE SubSeq(s, Len(s) - n + 1, Len(s))

RECURSIVE FilterNewerThan(_, _)
FilterNewerThan(sets, t) ==
  IF sets = <<>> THEN <<>>
  ELSE (IF Head(sets).timestamp > t THEN <<Head(sets)>> ELSE <<>>) \o FilterNewerThan(Tail(sets), t)

\* the trimming without the 7-day filter
TrimRecentNoFilter(sets, timestamp) == SliceLast(sets, MaxRecent)

TrimRecent(sets, timestamp) == SliceLast(FilterNewerThan(sets, timestamp - SevenDays), MaxRecent)

\* the error JSON.parse throws is caught and logged: nothing is written
updateRecentIPTracking(store, d, currentIPs, timestamp) ==
  LET pushed == Append(RecentSets(store, d), [ips |-> SortIps(currentIPs), timestamp |-> timestamp])
  IN IF ParseThrows(store, d) THEN store
     ELSE [store EXCEPT !.recent[d] =
             [has |-> TRUE, val |-> TrimRecent(pushed, timestamp), exp |-> timestamp + SevenDays,
              ok |-> TRUE]]

\* ------------------------------------------------------------------------
\* detectCoordinatedInfrastructureChange.  kv.global is the set of live
\* global:dns_changes:<bucket> keys, each [bucket, entries, exp].
\* ------------------------------------------------------------------------
\* the last two labels of a domain
BaseDomain(d) == IF Len(d) >= 2 THEN SubSeq(d, Len(d) - 1, Len(d)) ELSE d

BucketOf(timestamp) == timestamp \div BucketWidth

GlobalChanges(store, bucket) ==
  IF \E g \in store.global : g.bucket = bucket
    THEN (CHOOSE g \in store.global : g.bucket = bucket).entries
    ELSE <<>>

RECURSIVE RelatedOf(_, _, _)
RelatedOf(changes, d, threshold) ==
  IF changes = <<>> THEN <<>>
  ELSE (IF /\ Head(changes).timestamp > threshold
           /\ BaseDomain(Head(changes).domain) = BaseDomain(d)
           /\ Head(changes).domain # d
          THEN <<Head(changes).domain>> ELSE <<>>) \o RelatedOf(Tail(changes), d, threshold)

detectCoordinatedInfrastructureChange(store, d, currentIPs, timestamp) ==
  LET recentChangeThreshold == timestamp - timeWindow
      bucket == BucketOf(timestamp)
      globalChanges == Append(GlobalChanges(store, bucket),
                              [domain |-> d, ips |-> SortIps(currentIPs), timestamp |-> timestamp])
      stored == [store EXCEPT !.global =
                   {g \in store.global : g.bucket # bucket}
                     \cup {[bucket |-> bucket, entries |-> globalChanges, exp |-> timestamp + GlobalTtl]}]
      recentIdx == {i \in 1..Len(globalChanges) : globalChanges[i].timestamp > recentChangeThreshold}
      relatedDomains == RelatedOf(globalChanges, d, recentChangeThreshold)
      allRecentIPs == UNION {Range(globalChanges[i].ips) : i \in recentIdx}
      ipOverlap == Cardinality(allRecentIPs \cap Range(currentIPs))
      most == Max2(Cardinality(allRecentIPs), Len(currentIPs))
      \* coordinationScore = min(1, 0.3 * related + 0.7 * ipOverlap / most) > 0.6;
      \* with most = 0 the ratio is NaN and the comparison is false
      scoreHigh == most > 0 /\ 3 * Len(relatedDomains) * most + 7 * ipOverlap > 6 * most
      scoreNum == 3 * Len(relatedDomains) * most + 7 * ipOverlap
  IN [store |-> stored,
      isCoordinated |-> Len(relatedDomains) >= 2 /\ scoreHigh,
      confidence |-> IF Len(relatedDomains) = 0 \/ most = 0 THEN <<0, 1>>
                     ELSE IF scoreNum >= 10 * most THEN <<1, 1>>
                     ELSE <<scoreNum, 10 * most>>,
      relatedDomains |-> relatedDomains,
      ipOverlap |-> ipOverlap,
      most |-> most]

NoCoordination(store) ==
  [store |-> store, isCoordinated |-> FALSE, confidence |-> <<0, 1>>,
   relatedDomains |-> <<>>, ipOverlap |-> 0, most |-> 0]

\* ------------------------------------------------------------------------
\* shouldSendDNSChangeNotification: the decision, the store after it and
\* the analysis it rests on.  outcome is one of "oscillation" (suppressed),
\* "auto" (auto-suppression notice), "dampened" (suppressed), "notify".
\* ------------------------------------------------------------------------
SeenRecently(recentIPSets, currentIPs, now) ==
  \E i \in 1..Len(recentIPSets) :
    /\ SortIps(recentIPSets[i].ips) = SortIps(currentIPs)
    /\ now - recentIPSets[i].timestamp < OscillationLookback

OscillationDampening(cdnInfo, lbInfo) ==
  IF cdnInfo.isAnyCDN \/ lbInfo.isLoadBalancer THEN OscillationCdnLb ELSE OscillationOther

SuppressionThreshold(lbInfo) == IF lbInfo.isLoadBalancer THEN 3 ELSE 5

\* a decision in which the override replaces everything that follows it
DecideOverrideOnly(oscillating, sinceLast, oscDampening, recentCount, threshold, period) ==
  IF oscillating THEN (IF sinceLast < oscDampening THEN "oscillation" ELSE "notify")
  ELSE IF recentCount >= threshold THEN "auto"
  ELSE IF sinceLast < period THEN "dampened"
  ELSE "notify"

\* the order in which the decision is taken
Decide(oscillating, sinceLast, oscDampening, recentCount, threshold, period) ==
  IF oscillating /\ sinceLast < oscDampening THEN "oscillation"
  ELSE IF recentCount >= threshold THEN "auto"
  ELSE IF sinceLast < period THEN "dampened"
  ELSE "notify"

\* what is read and analyzed before any decision
Analysis(store, d, currentIPs, ttl, previousIPs, now) ==
  [lastNotifyTime |-> LastNotifyTime(store, d),
   recentIPSets |-> RecentSets(store, d),
   cdnInfo |-> detectProvider(currentIPs),
   lbInfo |-> analyzePattern(RecentSets(store, d), now),
   timeInfo |-> analyzeTimePatterns(now),
   context |-> analyzeChange(previousIPs, currentIPs, ttl, now)]

\* the cross-domain detection, queried when the domain's own history is short
Coordination(a, store, d, currentIPs, now) ==
  IF ~a.lbInfo.isLoadBalancer /\ Len(a.recentIPSets) < 3
    THEN [queried |-> TRUE,
          info |-> detectCoordinatedInfrastructureChange(store, d, currentIPs, now)]
    ELSE [queried |-> FALSE, info |-> NoCoordination(store)]

\* a coordinated change counts as round-robin load balancing, of high severity
Upgraded(a, c) ==
  IF c.info.isCoordinated
    THEN [a EXCEPT !.lbInfo = [isLoadBalancer |-> TRUE, pattern |-> "round_robin",
                               confidence |-> c.info.confidence],
                   !.context.severity = "high"]
    ELSE a

\* the quantities the decision compares
Measures(a, currentIPs, now) ==
  [oscillating |-> SeenRecently(a.recentIPSets, currentIPs, now) /\ Len(a.recentIPSets) > 1,
   oscDampening |-> OscillationDampening(a.cdnInfo, a.lbInfo),
   sinceLast |-> now - a.lastNotifyTime,
   changeCount |-> Len(Newer(a.recentIPSets, now, oneHour)),
   threshold |-> SuppressionThreshold(a.lbInfo),
   period |-> calculateIntelligentDampening(a.context, a.cdnInfo, a.lbInfo, a.timeInfo,
                                            a.recentIPSets, now)]

\* a decision that tracks the address set only when it notifies
DecidedUntracked(a, c, m, outcome, d, currentIPs, now) ==
  [store |-> IF outcome \in {"auto", "notify"}
               THEN updateRecentIPTracking(PutLast(c.info.store, d, now), d, currentIPs, now)
               ELSE c.info.store,
   shouldNotify |-> outcome \in {"auto", "notify"},
   outcome |-> outcome,
   context |-> IF outcome = "auto"
                 THEN [a.context EXCEPT !.severity = "high", !.changeType = "complete_change"]
                 ELSE a.context,
   isAutoSuppression |-> outcome = "auto",
   changeCount |-> m.changeCount,
   cdnInfo |-> a.cdnInfo,
   lbInfo |-> a.lbInfo,
   timeInfo |-> a.timeInfo,
   isCoordinated |-> c.info.isCoordinated,
   relatedDomains |-> c.info.relatedDomains,
   queried |-> c.queried,
   oscillating |-> m.oscillating,
   oscDampening |-> m.oscDampening,
   period |-> m.period,
   sinceLast |-> m.sinceLast]

\* what the function returns and the store it leaves, for a given outcome
Decided(a, c, m, outcome, d, currentIPs, now) ==
  [store |-> updateRecentIPTracking(
               IF outcome \in {"auto", "notify"} THEN PutLast(c.info.store, d, now)
               ELSE c.info.store,
               d, currentIPs, now),
   shouldNotify |-> outcome \in {"auto", "notify"},
   outcome |-> outcome,
   context |-> IF outcome = "auto"
                 THEN [a.context EXCEPT !.severity = "high", !.changeType = "complete_change"]
                 ELSE a.context,
   isAutoSuppression |-> outcome = "auto",
   changeCount |-> m.changeCount,
   cdnInfo |-> a.cdnInfo,
   lbInfo |-> a.lbInfo,
   timeInfo |-> a.timeInfo,
   isCoordinated |-> c.info.isCoordinated,
   relatedDomains |-> c.info.relatedDomains,
   queried |-> c.queried,
   oscillating |-> m.oscillating,
   oscDampening |-> m.oscDampening,
   period |-> m.period,
   sinceLast |-> m.sinceLast]

Measured(a, c, m, d, currentIPs, now) ==
  Decided(a, c, m,
          Decide(m.oscillating, m.sinceLast, m.oscDampening, m.changeCount, m.threshold, m.period),
          d, currentIPs, now)

Coordinated(a, c, d, currentIPs, now) ==
  Measured(Upgraded(a, c), c, Measures(Upgraded(a, c), currentIPs, now), d, currentIPs, now)

Analyzed(a, store, d, currentIPs, now) ==
  Coordinated(a, Coordination(a, store, d, currentIPs, now), d, currentIPs, now)

\* the catch block: an error thrown while the stored values are read ends
\* the function with shouldNotify and nothing else; no key is written
Caught(store) ==
  [store |-> store, shouldNotify |-> TRUE, outcome |-> "caught",
   context |-> [severity |-> "none", changeType |-> "none"],
   isAutoSuppression |-> FALSE, changeCount |-> 0,
   cdnInfo |-> [isAnyCDN |-> FALSE], lbInfo |-> NoLb,
   isCoordinated |-> FALSE, relatedDomains |-> <<>>, queried |-> FALSE,
   oscillating |-> FALSE, oscDampening |-> 0, period |-> 0, sinceLast |-> 0]

shouldSendDNSChangeNotification(store, d, currentIPs, ttl, previousIPs, now) ==
  IF ParseThrows(store, d) THEN Caught(store)
  ELSE Analyzed(Analysis(store, d, currentIPs, ttl, previousIPs, now), store, d, currentIPs, now)

\* ------------------------------------------------------------------------
\* The Discord webhook.  A check sends at most two messages; notifier says
\* which of them the webhook accepts: "ok" all, "failFirst" all but the
\* first, "failAll" none.  A rejected message makes sendDiscordMessage throw.
\* ------------------------------------------------------------------------
Notifiers == {"ok", "failFirst", "failAll"}

Accepts(notifier, nth) == notifier = "ok" \/ (notifier = "failFirst" /\ nth > 1)

Msg(kind, d, ok) == [kind |-> kind, domain |-> d, ok |-> ok]

\* a catch block that swallows the error
CatchBlockSilent(d, notifier, sent) == [emitted |-> sent, rejected |-> FALSE]

\* the catch block of checkDomain: one ErrorMonitoring message, sent as the
\* nth message of the check; its failure leaves checkDomain rejected
CatchBlock(d, notifier, sent) ==
  LET ok == Accepts(notifier, Len(sent) + 1)
  IN [emitted |-> Append(sent, Msg("ErrorMonitoring", d, ok)), rejected |-> ~ok]

\* ------------------------------------------------------------------------
\* checkDomain.  res is what queryDNS gives: [kind, ips, ttl, serial] with
\* kind "error" (queryDNS throws), "noAuthority" or "answer"; ips are the
\* A records in answer order, ttl the TTL of the first, serial the third
\* field of the SOA record ("" when there is none).
\* ------------------------------------------------------------------------
NoDecision == [outcome |-> "none", sinceLast |-> 0, period |-> 0, oscillating |-> FALSE,
               oscDampening |-> 0, changeCount |-> 0, isLoadBalancer |-> FALSE,
               isCoordinated |-> FALSE, queried |-> FALSE, severity |-> "none",
               changeType |-> "none", isAnyCDN |-> FALSE, relatedDomains |-> <<>>,
               pattern |-> "unknown"]

DecisionOf(r) == [outcome |-> r.outcome, sinceLast |-> r.sinceLast, period |-> r.period,
                  oscillating |-> r.oscillating, oscDampening |-> r.oscDampening,
                  changeCount |-> r.changeCount, isLoadBalancer |-> r.lbInfo.isLoadBalancer,
                  isCoordinated |-> r.isCoordinated, queried |-> r.queried,
                  severity |-> r.context.severity, changeType |-> r.context.changeType,
                  isAnyCDN |-> r.cdnInfo.isAnyCDN, relatedDomains |-> r.relatedDomains,
                  pattern |-> r.lbInfo.pattern]

Outcome(store, path, sent, rejected, writes, decision) ==
  [store |-> store, path |-> path, emitted |-> sent, rejected |-> rejected,
   writes |-> writes, decision |-> decision]

\* a send that is tried a second time when the webhook rejects it
TrySendRetry(store, path, d, kind, notifier, writes, decision) ==
  IF Accepts(notifier, 1)
    THEN Outcome(store, path, <<Msg(kind, d, TRUE)>>, FALSE, writes, decision)
    ELSE Outcome(store, path, <<Msg(kind, d, FALSE), Msg(kind, d, Accepts(notifier, 2))>>,
                 ~Accepts(notifier, 2), writes, decision)

\* a message sent from the try block: when the webhook rejects it the catch
\* block runs
TrySend(store, path, d, kind, notifier, writes, decision) ==
  IF Accepts(notifier, 1)
    THEN Outcome(store, path, <<Msg(kind, d, TRUE)>>, FALSE, writes, decision)
    ELSE LET c == CatchBlock(d, notifier, <<Msg(kind, d, FALSE)>>)
         IN Outcome(store, path, c.emitted, c.rejected, writes, decision)

\* a change that stores the state alone
PutDnsStateOnly(store, d, currentIPs, serial) == [store EXCEPT !.state[d] = "resolved"]

PutDns(store, d, currentIPs, serial) ==
  [store EXCEPT !.state[d] = "resolved",
                !.ips[d] = [has |-> TRUE, val |-> currentIPs],
                !.serial[d] = serial]

\* the keys shouldSendDNSChangeNotification puts
WritesOf(r) ==
  IF r.outcome = "caught" THEN {}
  ELSE {"recent"} \cup (IF r.shouldNotify THEN {"last"} ELSE {})
                  \cup (IF r.queried THEN {"global"} ELSE {})

\* a changed address set, once the decision r is taken: the notification
Changed(r, d, notifier) ==
  IF r.shouldNotify
    THEN TrySend(r.store, "changed", d,
                 IF r.isAutoSuppression THEN "AutoSuppression" ELSE "DNSChange",
                 notifier, {"state", "ips", "serial"} \cup WritesOf(r), DecisionOf(r))
    ELSE Outcome(r.store, "changed", <<>>, FALSE, {"state", "ips", "serial"} \cup WritesOf(r),
                 DecisionOf(r))

\* a zone update that is announced only when no change was notified in the
\* last hour
SerialChangedDampened(store, written, d, notifier, now) ==
  IF now - LastNotifyTime(store, d) < oneHour
    THEN Outcome(written, "serial", <<>>, FALSE, {"serial"}, NoDecision)
    ELSE TrySend(written, "serial", d, "DNSZoneUpdated", notifier, {"serial"}, NoDecision)

\* the serial alone changed, for a domain already monitored
SerialChanged(store, written, d, notifier, now) ==
  TrySend(written, "serial", d, "DNSZoneUpdated", notifier, {"serial"}, NoDecision)

\* a no-authority branch that ignores the stored state
AuthorityLostAlways(previousState) == TRUE

\* the transition test of the no-authority branch
AuthorityLost(previousState) == previousState # "no_authority"

checkDomain(store, d, res, notifier, now) ==
  IF res.kind = "error" THEN
    LET c == CatchBlock(d, notifier, <<>>)
    IN Outcome(store, "error", c.emitted, c.rejected, {}, NoDecision)
  ELSE IF res.kind = "noAuthority" THEN
    IF AuthorityLost(store.state[d])
      THEN TrySend([store EXCEPT !.state[d] = "no_authority"], "noAuthority", d,
                   "DNSAuthorityUnreachable", notifier, {"state"}, NoDecision)
      ELSE Outcome(store, "noAuthority", <<>>, FALSE, {}, NoDecision)
  ELSE
    LET serial == IF res.serial = "" THEN "unknown" ELSE res.serial
        previousState == store.state[d]
        previousIPs == store.ips[d]
        previousSerial == store.serial[d]
        \* an absent key and an empty stored string both split to no address
        previousIPsArray == SortIps(previousIPs.val)
        currentIPs == SortIps(res.ips)
        isFirstTimeMonitoring ==
          previousState = "" /\ (~previousIPs.has \/ previousIPs.val = <<>>) /\ previousSerial = ""
        ttl == IF res.ips = <<>> \/ res.ttl = 0 THEN DefaultTtl ELSE res.ttl
    IN IF previousIPsArray # currentIPs THEN
         LET written == PutDns(store, d, currentIPs, serial)
         IN IF isFirstTimeMonitoring
              THEN Outcome(written, "firstSeen", <<>>, FALSE, {"state", "ips", "serial"}, NoDecision)
              ELSE
                Changed(shouldSendDNSChangeNotification(written, d, currentIPs, ttl,
                                                        previousIPsArray, now),
                        d, notifier)
       ELSE IF serial # previousSerial THEN
         LET written == [store EXCEPT !.serial[d] = serial]
         IN IF ~isFirstTimeMonitoring
              THEN SerialChanged(store, written, d, notifier, now)
              ELSE Outcome(written, "serialFirst", <<>>, FALSE, {"serial"}, NoDecision)
       ELSE IF isFirstTimeMonitoring THEN
         Outcome(PutDns(store, d, currentIPs, serial), "firstSame", <<>>, FALSE,
                 {"state", "ips", "serial"}, NoDecision)
       ELSE Outcome(store, "noChange", <<>>, FALSE, {}, NoDecision)

\* ------------------------------------------------------------------------
\* Inputs: what the resolver may answer, and how far the clock moves
\* between two scheduled runs
\* ------------------------------------------------------------------------
Answer(ips, ttl, serial) == [kind |-> "answer", ips |-> ips, ttl |-> ttl, serial |-> serial]

ResolveError == [kind |-> "error", ips |-> <<>>, ttl |-> 0, serial |-> ""]
NoAuthority == [kind |-> "noAuthority", ips |-> <<>>, ttl |-> 0, serial |-> ""]

ResolveResults ==
  {ResolveError, NoAuthority,
   Answer(<<>>, 0, "s1"),
   Answer(<<IpB, IpA>>, 300, "s1"),
   Answer(<<IpB, IpA>>, 300, "s2"),
   Answer(<<IpD>>, 3600, "s1"),
   Answer(<<IpC>>, 300, "s1")}

Deltas == {Minute, 45 * Minute, OneDay}

\* Tuesday 13 January 1970, 10:00 UTC
Start == (12 * 24 + 10) * oneHour

WorkerVersion == "v1"

\* ------------------------------------------------------------------------
\* Stores the program reaches: a scripted run of checkDomain on one domain,
\* from the empty store, with the webhook up
\* ------------------------------------------------------------------------
Step(dt, res) == [dt |-> dt, res |-> res]

RECURSIVE RunScript(_, _, _, _)
RunScript(store, t, d, script) ==
  IF script = <<>> THEN store
  ELSE LET t2 == t + Head(script).dt
       IN CHOOSE after \in {RunScript(s, t2, d, Tail(script)) :
                              s \in {checkDomain(Expire(store, t2), d, Head(script).res, "ok", t2).store}} :
            TRUE

\* one change almost a week ago, then eight changes, one a minute
BusyScript ==
  <<Step(0, Answer(<<IpD>>, 300, "s1")),
    Step(Minute, Answer(<<IpF>>, 300, "s1")),
    Step(6 * OneDay + 20 * oneHour, Answer(<<IpG>>, 300, "s1")),
    Step(Minute, Answer(<<IpD, IpF>>, 300, "s1")),
    Step(Minute, Answer(<<IpD, IpG>>, 300, "s1")),
    Step(Minute, Answer(<<IpF, IpG>>, 300, "s1")),
    Step(Minute, Answer(<<IpD, IpF, IpG>>, 300, "s1")),
    Step(Minute, Answer(<<IpD>>, 300, "s1")),
    Step(Minute, Answer(<<IpF>>, 300, "s1")),
    Step(Minute, Answer(<<IpG, IpD>>, 300, "s1"))>>

BusyDuration == 6 * OneDay + 20 * oneHour + 8 * Minute

\* D1 was added by command and has been monitored since, by this deployment
BusyStore ==
  RunScript([EmptyStore EXCEPT !.dyn = <<D1>>, !.version = WorkerVersion],
            Start - BusyDuration, D1, BusyScript)

\* an address of a content delivery network and another one, in turns, then
\* ninety quiet minutes
CdnScript ==
  <<Step(0, Answer(<<IpC>>, 300, "s1")),
    Step(Minute, Answer(<<IpD>>, 300, "s1")),
    Step(Minute, Answer(<<IpC>>, 300, "s1")),
    Step(Minute, Answer(<<IpD>>, 300, "s1")),
    Step(90 * Minute, Answer(<<IpD>>, 300, "s1"))>>

CdnDuration == 93 * Minute

\* D1 is configured and has gone back and forth between two answers
CdnStore ==
  RunScript([EmptyStore EXCEPT !.version = WorkerVersion], Start - CdnDuration, D1, CdnScript)

\* a minute before the end of a five-minute bucket
PairStart == Start + 4 * Minute

\* D1 and D2 are configured and each has been seen once, a minute before
PairStore ==
  RunScript(RunScript([EmptyStore EXCEPT !.version = WorkerVersion], PairStart - Minute, D1,
                      <<Step(0, Answer(<<IpD>>, 300, "s1"))>>),
            PairStart - Minute, D2, <<Step(0, Answer(<<IpF>>, 300, "s1"))>>)

\* the configurations a run starts from: MONITOR_DOMAINS and the store
Seeds ==
  {[static |-> <<>>, store |-> EmptyStore],
   [static |-> <<D1>>, store |-> EmptyStore],
   [static |-> <<>>, store |-> BusyStore],
   [static |-> <<D1>>, store |-> CdnStore]}

\* ------------------------------------------------------------------------
\* State
\* ------------------------------------------------------------------------
VARIABLES
  now,      \* Date.now()
  static,   \* env.MONITOR_DOMAINS, split
  kv,       \* the DNS_KV namespace
  running,  \* a scheduled run is in flight
  queue,    \* the domains the run in flight has still to check
  ticks,    \* scheduled runs started
  cmds,     \* commands handled
  autoAt,   \* per domain, when its last auto-suppression notice was emitted (0: none)
  cleared,  \* per domain: "pending" from /dampening clear:true until a change of
            \* the domain is analyzed, then "answered"; "no" otherwise
  last      \* what the last step did

vars == <<now, static, kv, running, queue, ticks, cmds, autoAt, cleared, last>>

\* the stored values of a domain a step found
Pre(store, d) ==
  [state |-> store.state[d], hasIps |-> store.ips[d].has, serial |-> store.serial[d],
   lastNotify |-> LastNotifyTime(store, d), hasLast |-> store.nlast[d].has,
   hasRecent |-> store.recent[d].has, recentLen |-> Len(RecentSets(store, d))]

NoPre == [state |-> "", hasIps |-> FALSE, serial |-> "", lastNotify |-> 0, hasLast |-> FALSE,
          hasRecent |-> FALSE, recentLen |-> 0]

Did(op, d, res, path, emitted, rejected, writes, decision, pre, preAuto, left) ==
  [op |-> op, domain |-> d, res |-> res, path |-> path, emitted |-> emitted,
   rejected |-> rejected, writes |-> writes, decision |-> decision, pre |-> pre,
   preAuto |-> preAuto, left |-> left]

Init ==
  \E seed \in Seeds :
    /\ now = Start
    /\ static = seed.static
    /\ kv = seed.store
    /\ running = FALSE
    /\ queue = <<>>
    /\ ticks = 0
    /\ cmds = 0
    /\ autoAt = [d \in Domains |-> 0]
    /\ cleared = [d \in Domains |-> "no"]
    /\ last = Did("init", D1, "none", "none", <<>>, FALSE, {}, NoDecision, NoPre, 0, <<>>)

\* ------------------------------------------------------------------------
\* scheduled: the run starts; the domains are enumerated, a new deployment
\* is announced (a failure to announce it is caught)
\* ------------------------------------------------------------------------
AllDomains(staticDomains, store) == staticDomains \o store.dyn

\* a run that stores the version only once the announcement was accepted
TickStartUntilAnnounced(dt, notifier) ==
  /\ ~running
  /\ ticks < MaxTicks
  /\ LET t == now + dt
         store == Expire(kv, t)
         allDomains == AllDomains(static, store)
         newDeployment == allDomains # <<>> /\ WorkerVersion # "" /\ store.version # WorkerVersion
     IN /\ now' = t
        /\ kv' = IF newDeployment /\ Accepts(notifier, 1)
                  THEN [store EXCEPT !.version = WorkerVersion] ELSE store
        /\ running' = (allDomains # <<>>)
        /\ queue' = allDomains
        /\ last' = Did("tickStart", D1, "none", "none",
                       IF newDeployment
                         THEN <<Msg("NewDeployment", D1, Accepts(notifier, 1))>> ELSE <<>>,
                       FALSE, IF newDeployment /\ Accepts(notifier, 1) THEN {"version"} ELSE {},
                       NoDecision, NoPre, 0, <<>>)
  /\ ticks' = ticks + 1
  /\ UNCHANGED <<static, cmds, autoAt, cleared>>

TickStart(dt, notifier) ==
  /\ ~running
  /\ ticks < MaxTicks
  /\ LET t == now + dt
         store == Expire(kv, t)
         allDomains == AllDomains(static, store)
         newDeployment == allDomains # <<>> /\ WorkerVersion # "" /\ store.version # WorkerVersion
     IN /\ now' = t
        /\ kv' = IF newDeployment THEN [store EXCEPT !.version = WorkerVersion] ELSE store
        /\ running' = (allDomains # <<>>)
        /\ queue' = allDomains
        /\ last' = Did("tickStart", D1, "none", "none",
                       IF newDeployment
                         THEN <<Msg("NewDeployment", D1, Accepts(notifier, 1))>> ELSE <<>>,
                       FALSE, IF newDeployment THEN {"version"} ELSE {}, NoDecision, NoPre, 0, <<>>)
  /\ ticks' = ticks + 1
  /\ UNCHANGED <<static, cmds, autoAt, cleared>>

\* the loop of scheduled over the enumerated domains: what is still to check
\* after one checkDomain; a rejected checkDomain rejects scheduled
LoopAfter(remaining, rejected) == IF rejected THEN <<>> ELSE Tail(remaining)

\* the run checks the next domain of its list, and ends after the last
Check(res, notifier) ==
  /\ running
  /\ queue # <<>>
  /\ \E d \in {Head(queue)}, r \in {checkDomain(kv, Head(queue), res, notifier, now)} :
        /\ kv' = r.store
        /\ queue' = LoopAfter(queue, r.rejected)
        /\ running' = (queue' # <<>>)
        /\ autoAt' = IF \E i \in 1..Len(r.emitted) : r.emitted[i].kind = "AutoSuppression"
                       THEN [autoAt EXCEPT ![d] = now] ELSE autoAt
        /\ cleared' = IF r.decision.outcome = "none" THEN cleared
                       ELSE [cleared EXCEPT ![d] = IF @ = "pending" THEN "answered" ELSE "no"]
        /\ last' = Did("check", d, res.kind, r.path, r.emitted, r.rejected, r.writes,
                       r.decision, Pre(kv, d), autoAt[d], Tail(queue))
  /\ UNCHANGED <<now, static, ticks, cmds>>

\* ------------------------------------------------------------------------
\* The command surface
\* ------------------------------------------------------------------------
Includes(s, x) == \E i \in 1..Len(s) : s[i] = x

\* Array.prototype.indexOf, 1-based; 0 when absent
IndexOf(s, x) == IF Includes(s, x) THEN CHOOSE i \in 1..Len(s) : s[i] = x /\ \A j \in 1..(i - 1) : s[j] # x
                 ELSE 0

\* Array.prototype.splice(index, 1)
SpliceOne(s, i) == SubSeq(s, 1, i - 1) \o SubSeq(s, i + 1, Len(s))

\* an /add that does not look for the domain in the list
handleAddDomainAlways(store, d) ==
  [store |-> [store EXCEPT !.dyn = Append(store.dyn, d)], result |-> "added"]

handleAddDomain(store, d) ==
  IF Includes(store.dyn, d)
    THEN [store |-> store, result |-> "duplicate"]
    ELSE [store |-> [store EXCEPT !.dyn = Append(store.dyn, d)], result |-> "added"]

\* the keys handleRemoveDomain deletes
RemoveCleanup(store, d) ==
  [store EXCEPT !.ips[d] = NoIps, !.serial[d] = "", !.state[d] = ""]

handleRemoveDomain(store, d) ==
  IF IndexOf(store.dyn, d) = 0
    THEN [store |-> store, result |-> "not_found"]
    ELSE [store |-> RemoveCleanup([store EXCEPT !.dyn = SpliceOne(store.dyn, IndexOf(store.dyn, d))], d),
          result |-> "removed"]

\* a clear that forgets the last notification and keeps the history
ClearDampeningLastOnly(store, d) == [store EXCEPT !.nlast[d] = NoLast]

\* /dampening with clear:true
ClearDampeningKeys(store, d) ==
  [store EXCEPT !.nlast[d] = NoLast, !.recent[d] = NoRecent]

\* what a command leaves behind
Handled(op, d, r, pre) ==
  /\ kv' = r.store
  /\ cmds' = cmds + 1
  /\ autoAt' = IF r.result \in {"removed", "cleared"} THEN [autoAt EXCEPT ![d] = 0] ELSE autoAt
  /\ cleared' = IF r.result = "cleared" THEN [cleared EXCEPT ![d] = "pending"]
                ELSE IF r.result = "removed" THEN [cleared EXCEPT ![d] = "no"]
                ELSE cleared
  /\ last' = Did(op, d, "none", r.result, <<>>, FALSE, {}, NoDecision, pre, autoAt[d], <<>>)
  /\ UNCHANGED <<now, static, running, queue, ticks>>

Command(op, d, r, pre) == cmds < MaxCmds /\ Handled(op, d, r, pre)

AddDynamic(d) == Command("add", d, handleAddDomain(kv, d), Pre(kv, d))

RemoveDynamic(d) == Command("remove", d, handleRemoveDomain(kv, d), Pre(kv, d))

ClearDampening(d) ==
  Command("clear", d, [store |-> ClearDampeningKeys(kv, d), result |-> "cleared"], Pre(kv, d))

Next ==
  \/ \E dt \in Deltas, notifier \in Notifiers : TickStart(dt, notifier)
  \/ \E res \in ResolveResults, notifier \in Notifiers : Check(res, notifier)
  \/ \E d \in Domains : AddDynamic(d)
  \/ \E d \in Domains : RemoveDynamic(d)
  \/ \E d \in Domains : ClearDampening(d)

Spec == Init /\ [][Next]_vars

\* ------------------------------------------------------------------------
\* Properties
\* ------------------------------------------------------------------------
Kinds(emitted) == {emitted[i].kind : i \in 1..Len(emitted)}

ChangeKinds == {"DNSChange", "AutoSuppression"}

Checked == last.op = "check"

\* the five per-domain keys
DomainKeys(store, d) ==
  <<store.state[d], store.ips[d], store.serial[d], store.nlast[d], store.recent[d]>>

NoDnsKeysBefore == last.pre.state = "" /\ ~last.pre.hasIps /\ last.pre.serial = ""

\* C1 (as claimed): the first check of a domain that has no dns:D:* key
\* emits no DNS-change and no zone-updated notification and leaves
\* dns:D:state = "resolved", or "no_authority" when the authority was
\* unreachable, also when the resolver returns no A record.
C1_FirstSeenSilence ==
  (Checked /\ NoDnsKeysBefore /\ last.res # "error") =>
    /\ Kinds(last.emitted) \cap (ChangeKinds \cup {"DNSZoneUpdated"}) = {}
    /\ kv.state[last.domain] = IF last.res = "noAuthority" THEN "no_authority" ELSE "resolved"

\* C2 (as claimed): once an auto-suppression notice was emitted for D at
\* time t, no IP-change notification (regular or auto-suppression) is
\* emitted for a change of D observed in (t, t + 4 h).
C2_AutoSuppressionSilence ==
  (Checked /\ last.preAuto > 0 /\ now > last.preAuto /\ now - last.preAuto < autoSuppressPeriod) =>
    Kinds(last.emitted) \cap ChangeKinds = {}

\* the dampening period in force for an analyzed change: the oscillation
\* override when the signature was seen in the last 24 h, else the
\* calculator's clamped period
EffectivePeriod(decision) ==
  IF decision.oscillating THEN decision.oscDampening ELSE decision.period

\* C3 (as claimed): an analyzed IP change observed less than the effective
\* dampening period after the last notification emits no notification and
\* leaves notify:D:last unchanged.
C3_NotifyDecision ==
  (Checked /\ last.path = "changed" /\ last.decision.outcome # "none"
     /\ last.decision.sinceLast < EffectivePeriod(last.decision)) =>
    /\ Kinds(last.emitted) \cap ChangeKinds = {}
    /\ LastNotifyTime(kv, last.domain) = last.pre.lastNotify

\* C4: a check whose resolution fails emits exactly one ErrorMonitoring
\* notification for the domain and writes none of its five keys.
C4_TransportError ==
  [][(last'.op = "check" /\ last'.res = "error") =>
       /\ Len(last'.emitted) = 1
       /\ last'.emitted[1].kind = "ErrorMonitoring"
       /\ last'.emitted[1].domain = last'.domain
       /\ last'.writes = {}
       /\ DomainKeys(kv', last'.domain) = DomainKeys(kv, last'.domain)]_vars

C4_Witness ==
  /\ Checked /\ last.res = "error"
  /\ last.pre.state = "resolved" /\ last.pre.hasLast
  /\ last.emitted = <<Msg("ErrorMonitoring", last.domain, TRUE)>>

\* C5 (as claimed): a scheduled run checks every domain it enumerated: after
\* each checkDomain the run goes on with the domains that follow, whatever
\* failed in that check.
C5_FailureIsolation ==
  (Checked /\ last.left # <<>>) => (running /\ queue = last.left)

C7_RemovalLeavesNoResidue ==
  (last.op = "remove" /\ last.path = "removed") =>
    /\ kv.state[last.domain] = ""
    /\ ~kv.ips[last.domain].has
    /\ kv.serial[last.domain] = ""
    /\ ~kv.nlast[last.domain].has
    /\ ~kv.recent[last.domain].has

C10_Original ==
  \A d \in Domains :
    /\ Len(RecentSets(kv, d)) <= MaxRecent
    /\ \A i \in 1..Len(RecentSets(kv, d)) : RecentSets(kv, d)[i].timestamp > now - SevenDays

\* when the live key notify:D:recent_ips was last written
RecentWrittenAt(store, d) == store.recent[d].exp - SevenDays

\* C10 (amended): notify:D:recent_ips holds at most 10 entries in every
\* reachable state, and every entry's timestamp is within 7 days of the
\* time the key was last written (entries are trimmed on write only), hence
\* within 14 days of the current time.
C10_BoundedHistory ==
  \A d \in Domains :
    /\ Len(RecentSets(kv, d)) <= MaxRecent
    /\ \A i \in 1..Len(RecentSets(kv, d)) :
         /\ RecentSets(kv, d)[i].timestamp > RecentWrittenAt(kv, d) - SevenDays
         /\ RecentSets(kv, d)[i].timestamp > now - 2 * SevenDays

\* ten entries written by a check, the oldest of them by now older than
\* 7 days
C10_Witness ==
  \E d \in Domains :
    /\ kv.recent[d].has
    /\ RecentWrittenAt(kv, d) > Start
    /\ Len(RecentSets(kv, d)) = MaxRecent
    /\ RecentSets(kv, d)[1].timestamp <= now - SevenDays

\* ------------------------------------------------------------------------
\* The dampening calculator on its own: Init draws its inputs, Calculate
\* applies it.
\* ------------------------------------------------------------------------
CalcTtls == {0, 59, 60, 299, 300, 450, 899, 900, 1800, 3600}

CalcIps == {<<IpA>>, <<IpC>>, <<IpC, IpA>>}

CalcLbInfos ==
  {NoLb} \cup {[isLoadBalancer |-> TRUE, pattern |-> p, confidence |-> <<7, 10>>] :
                 p \in {"round_robin", "weighted", "failover", "geographic"}}

\* Tuesday 03:00, 10:00 and 20:00, Saturday 10:00
CalcInstants == {Start - 7 * oneHour, Start, Start + 10 * oneHour, Start + 4 * OneDay}

CalcSeverities == {"critical", "high", "medium", "low"}

CalcFrequencies == {0, 3, 5}

\* n changes, one a minute, the last one a minute before t
CalcHistory(n, t) == [i \in 1..n |-> [ips |-> <<IpA>>, timestamp |-> t - (n + 1 - i) * Minute]]

CalcInput(ttl, ips, lbInfo, severity, n, t) ==
  [op |-> "input",
   context |-> [timestamp |-> t, ttl |-> ttl, changeType |-> "replacement", severity |-> severity],
   cdnInfo |-> detectProvider(ips),
   lbInfo |-> lbInfo,
   timeInfo |-> analyzeTimePatterns(t),
   recentIPSets |-> CalcHistory(n, t),
   period |-> 0]

InitCalc ==
  /\ now \in CalcInstants
  /\ static = <<>>
  /\ kv = EmptyStore
  /\ running = FALSE
  /\ queue = <<>>
  /\ ticks = 0
  /\ cmds = 0
  /\ autoAt = [d \in Domains |-> 0]
  /\ cleared = [d \in Domains |-> "no"]
  /\ \E ttl \in CalcTtls, ips \in CalcIps, lbInfo \in CalcLbInfos,
        severity \in CalcSeverities, n \in CalcFrequencies :
       last = CalcInput(ttl, ips, lbInfo, severity, n, now)

Calculate ==
  /\ last.op = "input"
  /\ last' = [last EXCEPT
                !.op = "calc",
                !.period = calculateIntelligentDampening(last.context, last.cdnInfo, last.lbInfo,
                                                         last.timeInfo, last.recentIPSets, now)]
  /\ UNCHANGED <<now, static, kv, running, queue, ticks, cmds, autoAt, cleared>>

NextCalc == Calculate

SpecCalc == InitCalc /\ [][NextCalc]_vars

\* the period before the clamp
Unclamped(c) ==
  LET multiplier == Multiplier(c.context, c.cdnInfo, c.lbInfo, c.timeInfo, c.recentIPSets, now)
  IN MathRound(getBaseDampening(c.context.ttl) * multiplier[1], multiplier[2])

\* C9: for every TTL, CDN result, load-balancer result, time context,
\* severity and history, the period the calculator returns lies in
\* [60 000 ms, 14 400 000 ms].
C9_DampeningClamp ==
  (last.op = "calc") => (last.period >= minDampening /\ last.period <= maxDampening)

\* a period lowered to the maximum by the clamp
C9_Witness ==
  /\ last.op = "calc"
  /\ Unclamped(last) > maxDampening
  /\ last.period = maxDampening

\* ------------------------------------------------------------------------
\* Stored address lists
\* ------------------------------------------------------------------------
\* C11: in every reachable state the address list stored in dns:D:ips and
\* the ips list of every entry of notify:D:recent_ips are sorted ascending
\* in lexicographic string order.
C11_CanonicalIPs ==
  \A d \in Domains :
    /\ IsSortedIps(kv.ips[d].val)
    /\ \A i \in 1..Len(RecentSets(kv, d)) : IsSortedIps(RecentSets(kv, d)[i].ips)

\* the resolver answered 9.9.9.9, 5.5.5.5 and the change was stored and
\* tracked
C11_Witness ==
  /\ Checked /\ last.path = "changed"
  /\ kv.ips[last.domain].val = <<IpA, IpB>>
  /\ RecentSets(kv, last.domain)[Len(RecentSets(kv, last.domain))].ips = <<IpA, IpB>>

\* ------------------------------------------------------------------------
\* State transitions of a domain
\* ------------------------------------------------------------------------
DnsKeys == {"state", "ips", "serial"}

\* C12 (as claimed): every check that moves the stored state of its domain
\* into "resolved" or into "no_authority" writes all three of dns:D:state,
\* dns:D:ips and dns:D:serial.
C12_Original ==
  (Checked /\ kv.state[last.domain] # last.pre.state
     /\ kv.state[last.domain] \in {"resolved", "no_authority"}) =>
    DnsKeys \subseteq last.writes

\* C12 (amended): a check that moves the stored state into "resolved"
\* writes all three of dns:D:state, dns:D:ips and dns:D:serial; a check
\* that moves it into "no_authority" writes dns:D:state alone and leaves
\* dns:D:ips and dns:D:serial as they were.  A check moves the state
\* nowhere else.
C12_TransitionWrites ==
  [][(last'.op = "check" /\ kv'.state[last'.domain] # kv.state[last'.domain]) =>
       IF kv'.state[last'.domain] = "resolved"
         THEN /\ DnsKeys \subseteq last'.writes
              /\ kv'.ips[last'.domain].has
              /\ kv'.serial[last'.domain] # ""
         ELSE /\ kv'.state[last'.domain] = "no_authority"
              /\ last'.writes = {"state"}
              /\ kv'.ips[last'.domain] = kv.ips[last'.domain]
              /\ kv'.serial[last'.domain] = kv.serial[last'.domain]]_vars

\* a resolved domain lost its authority: the addresses and serial stay
C12_Witness ==
  /\ Checked /\ last.res = "noAuthority"
  /\ last.pre.state = "resolved"
  /\ kv.state[last.domain] = "no_authority"
  /\ kv.ips[last.domain].has /\ kv.serial[last.domain] # ""

\* ------------------------------------------------------------------------
\* Notification bookkeeping
\* ------------------------------------------------------------------------
\* the IP-change messages among those a step sent
ChangeMessages(emitted) == {i \in 1..Len(emitted) : emitted[i].kind \in ChangeKinds}

\* C13: whenever a check sends an IP-change notification (regular or
\* auto-suppression), notify:D:last already holds the time of the check;
\* when the webhook rejects the message the timestamp stands, and the
\* notification is sent once only: what follows it in that check is at
\* most the ErrorMonitoring message of the catch block.
C13_TimestampBeforeNotify ==
  (Checked /\ ChangeMessages(last.emitted) # {}) =>
    /\ ChangeMessages(last.emitted) = {1}
    /\ "last" \in last.writes
    /\ kv.nlast[last.domain].has
    /\ kv.nlast[last.domain].val = now
    /\ IF last.emitted[1].ok
         THEN Len(last.emitted) = 1
         ELSE Len(last.emitted) = 2 /\ last.emitted[2].kind = "ErrorMonitoring"

\* the webhook rejected a change notification; the new timestamp is kept
C13_Witness ==
  /\ Checked /\ ChangeMessages(last.emitted) = {1}
  /\ ~last.emitted[1].ok
  /\ last.pre.hasLast /\ last.pre.lastNotify < now
  /\ LastNotifyTime(kv, last.domain) = now

\* ------------------------------------------------------------------------
\* Oscillation
\* ------------------------------------------------------------------------
\* an analyzed change whose address set was seen in the last 24 h
Oscillating == Checked /\ last.path = "changed" /\ last.decision.oscillating

\* the override period: 2 h when a CDN or a load balancer was detected,
\* else 30 min
OverridePeriod(decision) ==
  IF decision.isAnyCDN \/ decision.isLoadBalancer THEN OscillationCdnLb ELSE OscillationOther

\* C14 (as claimed): a change whose sorted address set occurs in the
\* history within the last 24 h is suppressed exactly when
\* now - lastNotificationAt is below the override period (2 h with a CDN or
\* load balancer, else 30 min): once the override period has elapsed the
\* calculator's period does not suppress it.
C14_Original ==
  Oscillating =>
    ((ChangeMessages(last.emitted) = {}) <=> (last.decision.sinceLast < OverridePeriod(last.decision)))

\* C14 (amended): such a change is suppressed whenever
\* now - lastNotificationAt is below the override period; once the override
\* period has elapsed the change goes through the ordinary decision: an
\* auto-suppression notice when the changes of the last hour reach the
\* threshold, else suppressed when now - lastNotificationAt is below the
\* calculator's period, else notified.
C14_OscillationOverride ==
  Oscillating =>
    /\ last.decision.oscDampening = OverridePeriod(last.decision)
    /\ last.decision.outcome =
         IF last.decision.sinceLast < OverridePeriod(last.decision) THEN "oscillation"
         ELSE IF last.decision.changeCount >= (IF last.decision.isLoadBalancer THEN 3 ELSE 5)
           THEN "auto"
         ELSE IF last.decision.sinceLast < last.decision.period THEN "dampened"
         ELSE "notify"
    /\ (ChangeMessages(last.emitted) = {}) <=> (last.decision.outcome \in {"oscillation", "dampened"})

\* the override period has elapsed and the calculator's period suppresses
C14_Witness ==
  /\ Oscillating
  /\ last.decision.sinceLast >= OverridePeriod(last.decision)
  /\ last.decision.outcome = "dampened"
  /\ last.emitted = <<>>

\* ------------------------------------------------------------------------
\* /remove with subdomains:true.  A domain is its sequence of labels, so
\* d.endsWith("." + f) is: the last labels of d are those of f and d has more.
\* ------------------------------------------------------------------------
EndsWithDot(d, f) == Len(d) > Len(f) /\ SubSeq(d, Len(d) - Len(f) + 1, Len(d)) = f

Matches(d, f) == d = f \/ EndsWithDot(d, f)

\* a removal that drops the first match only
FilteredFirst(domains, toRemove) ==
  IF toRemove = <<>> THEN domains ELSE SpliceOne(domains, IndexOf(domains, toRemove[1]))

\* domains.filter(d => !toRemove.includes(d))
RECURSIVE Filtered(_, _)
Filtered(domains, toRemove) ==
  IF domains = <<>> THEN <<>>
  ELSE (IF Includes(toRemove, Head(domains)) THEN <<>> ELSE <<Head(domains)>>)
         \o Filtered(Tail(domains), toRemove)

\* the five keys of every removed domain are deleted
SubtreeCleanup(store, removed) ==
  [store EXCEPT
     !.ips = [d \in Domains |-> IF d \in removed THEN NoIps ELSE store.ips[d]],
     !.serial = [d \in Domains |-> IF d \in removed THEN "" ELSE store.serial[d]],
     !.state = [d \in Domains |-> IF d \in removed THEN "" ELSE store.state[d]],
     !.nlast = [d \in Domains |-> IF d \in removed THEN NoLast ELSE store.nlast[d]],
     !.recent = [d \in Domains |-> IF d \in removed THEN NoRecent ELSE store.recent[d]]]

performRemoveWithSubdomainsAsync(store, staticDomains, f) ==
  LET Hit(d) == Matches(d, f)
      toRemove == SelectSeq(store.dyn, Hit)
      staticMatches == SelectSeq(staticDomains, Hit)
  IN IF toRemove = <<>> /\ staticMatches = <<>> THEN [store |-> store, result |-> "no_match", removed |-> {}]
     ELSE IF toRemove = <<>> THEN [store |-> store, result |-> "static_only", removed |-> {}]
     ELSE [store |-> SubtreeCleanup([store EXCEPT !.dyn = Filtered(store.dyn, toRemove)],
                                    Range(toRemove)),
           result |-> "removed_subtree",
           removed |-> Range(toRemove)]

\* the names /remove is given: the monitored domains, their parents and a
\* name that only shares a suffix of characters with them
Targets == Domains \cup {<<"ex", "com">>, <<"com">>, <<"x", "com">>}

\* ------------------------------------------------------------------------
\* The command surface alone: up to MaxCalls commands in a row on a store in
\* which both domains were added by command and seen, in either order
\* ------------------------------------------------------------------------
AddedStore(first, second) ==
  handleAddDomain(handleAddDomain([PairStore EXCEPT !.dyn = <<>>], first).store, second).store

CommandStores == {EmptyStore, AddedStore(D1, D2), AddedStore(D2, D1)}

InitCommands ==
  /\ now = PairStart
  /\ static \in {<<>>, <<D1>>}
  /\ kv \in CommandStores
  /\ running = FALSE
  /\ queue = <<>>
  /\ ticks = 0
  /\ cmds = 0
  /\ autoAt = [d \in Domains |-> 0]
  /\ cleared = [d \in Domains |-> "no"]
  /\ last = Did("init", D1, "none", "none", <<>>, FALSE, {}, NoDecision, NoPre, 0, <<>>)

AddCall(d) == cmds < MaxCalls /\ Handled("add", d, handleAddDomain(kv, d), Pre(kv, d))

RemoveCall(d) == cmds < MaxCalls /\ Handled("remove", d, handleRemoveDomain(kv, d), Pre(kv, d))

RemoveSubtree(f) ==
  /\ cmds < MaxCalls
  /\ \E r \in {performRemoveWithSubdomainsAsync(kv, static, f)} :
       /\ kv' = r.store
       /\ autoAt' = [d \in Domains |-> IF d \in r.removed THEN 0 ELSE autoAt[d]]
       /\ cleared' = [d \in Domains |-> IF d \in r.removed THEN "no" ELSE cleared[d]]
       /\ last' = Did("removeSubtree", f, "none", r.result, <<>>, FALSE, {}, NoDecision, NoPre, 0, <<>>)
  /\ cmds' = cmds + 1
  /\ UNCHANGED <<now, static, running, queue, ticks>>

NextCommands ==
  \/ \E d \in Domains : AddCall(d)
  \/ \E d \in Domains : RemoveCall(d)
  \/ \E f \in Targets : RemoveSubtree(f)

SpecCommands == InitCommands /\ [][NextCommands]_vars

\* ------------------------------------------------------------------------
\* A store whose notify:a.ex.com:recent_ips no longer holds JSON: the domain
\* has been monitored and notified, then the text of the key was damaged
\* ------------------------------------------------------------------------
Damaged(store, d) == [store EXCEPT !.recent[d].ok = FALSE]

InitDamaged ==
  /\ now = Start
  /\ static = <<D1>>
  /\ kv = Damaged(CdnStore, D1)
  /\ running = FALSE
  /\ queue = <<>>
  /\ ticks = 0
  /\ cmds = 0
  /\ autoAt = [d \in Domains |-> 0]
  /\ cleared = [d \in Domains |-> "no"]
  /\ last = Did("init", D1, "none", "none", <<>>, FALSE, {}, NoDecision, NoPre, 0, <<>>)

NextDamaged ==
  \/ \E dt \in Deltas, notifier \in Notifiers : TickStart(dt, notifier)
  \/ \E res \in ResolveResults, notifier \in Notifiers : Check(res, notifier)

SpecDamaged == InitDamaged /\ [][NextDamaged]_vars

\* ------------------------------------------------------------------------
\* Two sibling domains under one deployment, the webhook up: scheduled runs
\* a minute or three quarters of an hour apart
\* ------------------------------------------------------------------------
PairResults ==
  {ResolveError,
   Answer(<<IpD>>, 300, "s1"),
   Answer(<<IpF>>, 300, "s1"),
   Answer(<<IpB, IpA>>, 300, "s1")}

PairDeltas == {Minute, 45 * Minute}

InitPair ==
  /\ now = PairStart
  /\ static = <<D1, D2>>
  /\ kv = PairStore
  /\ running = FALSE
  /\ queue = <<>>
  /\ ticks = 0
  /\ cmds = 0
  /\ autoAt = [d \in Domains |-> 0]
  /\ cleared = [d \in Domains |-> "no"]
  /\ last = Did("init", D1, "none", "none", <<>>, FALSE, {}, NoDecision, NoPre, 0, <<>>)

NextPair ==
  \/ \E dt \in PairDeltas : TickStart(dt, "ok")
  \/ \E res \in PairResults : Check(res, "ok")

SpecPair == InitPair /\ [][NextPair]_vars

\* the changes of sibling domains (same last two labels, another name) that
\* a store holds under any global:dns_changes key, made after a threshold
SiblingChanges(store, d, threshold) ==
  {e \in UNION {Range(g.entries) : g \in store.global} :
     /\ e.timestamp > threshold
     /\ BaseDomain(e.domain) = BaseDomain(d)
     /\ e.domain # d}

\* C15: a coordinated-change query made at time t takes into account every
\* change of a sibling domain stamped in (t - 10 min, t], those recorded
\* under the preceding five-minute bucket included.
C15_CoordinationWindow ==
  [][(last'.op = "check" /\ last'.decision.queried)
       => \A e \in SiblingChanges(kv, last'.domain, now' - timeWindow) :
            e.timestamp <= now' => Includes(last'.decision.relatedDomains, e.domain)]_vars

\* the last step was a check that found an IP change of a domain already
\* seen, and analyzed it
AnalyzedChange == Checked /\ last.decision.outcome # "none"

\* C16: every analyzed (non-first-seen) IP change appends one entry
\* {domain, sorted IPs, now} to global:dns_changes:<floor(now / 300000)>,
\* whatever the length of the domain's history and its load-balancer
\* classification.
C16_GlobalAppend ==
  AnalyzedChange =>
    /\ "global" \in last.writes
    /\ LET entries == GlobalChanges(kv, BucketOf(now))
       IN /\ entries # <<>>
          /\ entries[Len(entries)] = [domain |-> last.domain,
                                      ips |-> kv.ips[last.domain].val,
                                      timestamp |-> now]

\* C17: after /dampening clear:true for a domain, the next check that finds
\* an IP change of that (already monitored) domain decides to notify and
\* hands a DNSChange message to the webhook: the change is suppressed
\* neither by the dampening period, nor by the oscillation override, nor by
\* auto-suppression.
C17_ClearThenNotify ==
  [][(last'.op = "check" /\ cleared[last'.domain] = "pending" /\ last'.decision.outcome # "none")
       => /\ last'.decision.outcome = "notify"
          /\ ~last'.pre.hasLast /\ ~last'.pre.hasRecent
          /\ last'.emitted # <<>>
          /\ last'.emitted[1].kind = "DNSChange"]_vars

\* a change notified right after a clear, of the domain that had changed
\* eight times in the last minutes before it
C17_Witness ==
  /\ Checked
  /\ static = <<>>
  /\ last.domain = D1
  /\ cleared[last.domain] = "answered"
  /\ last.decision.outcome = "notify"
  /\ last.emitted = <<Msg("DNSChange", last.domain, TRUE)>>
  /\ Len(RecentSets(kv, last.domain)) = 1

\* C18: a second /add of a domain returns "duplicate" and leaves
\* dynamic:domains and every other key exactly as the first call left them.
C18_AddIdempotent ==
  [][(last'.op = "add" /\ Includes(kv.dyn, last'.domain))
       => (last'.path = "duplicate" /\ kv' = kv)]_vars

\* the same domain added twice in a row, the first call having added it
C18_Witness ==
  /\ last.op = "add"
  /\ last.path = "duplicate"
  /\ cmds = 2
  /\ kv.dyn = <<D1>>

\* the domains of a list that are neither f nor below f, in the order of
\* the list
Outside(list, f) ==
  LET Keep(d) == ~(d = f \/ (Len(d) > Len(f) /\ SubSeq(d, Len(d) - Len(f) + 1, Len(d)) = f))
  IN SelectSeq(list, Keep)

\* C19: after /remove-with-subdomains f the dynamic list is the list before
\* it without exactly the domains d with d = f or d ending in "." + f, the
\* others kept in order; the static list is untouched even when it matches.
C19_RemoveSubtree ==
  [][(last'.op = "removeSubtree")
       => /\ kv'.dyn = Outside(kv.dyn, last'.domain)
          /\ static' = static]_vars

\* a.ex.com removed from the dynamic list while it is also configured
\* statically; b.ex.com is kept
C19_Witness ==
  /\ last.op = "removeSubtree"
  /\ last.path = "removed_subtree"
  /\ last.domain = D1
  /\ static = <<D1>>
  /\ kv.dyn = <<D2>>

\* the NewDeployment messages among the messages of a step
Announcements(emitted) == {i \in 1..Len(emitted) : emitted[i].kind = "NewDeployment"}

\* C20: a scheduled run that finds the host's version id different from the
\* stored system:version_id hands exactly one NewDeployment message to the
\* webhook, before the first domain check of that run, and stores the id; no
\* other step emits one, and a stored id stays stored, so no later run with
\* that id announces it again.
C20_DeploymentNotice ==
  [][/\ (last'.op = "tickStart" /\ AllDomains(static, kv) # <<>> /\ kv.version # WorkerVersion)
          => /\ Cardinality(Announcements(last'.emitted)) = 1
             /\ queue' = AllDomains(static, kv)
             /\ kv'.version = WorkerVersion
     /\ (Announcements(last'.emitted) # {})
          => (last'.op = "tickStart" /\ kv.version # WorkerVersion)
     /\ (kv.version = WorkerVersion) => (kv'.version = WorkerVersion)]_vars

\* the second run of a deployment announces it: the first one had no domain
\* to check, and one was added in between
C20_Witness ==
  /\ last.op = "tickStart"
  /\ Cardinality(Announcements(last.emitted)) = 1
  /\ ticks = 2
  /\ static = <<>>
  /\ kv.version = WorkerVersion
  /\ queue = <<D1>>

\* C21: a scheduled run checks the union of the static and the dynamic
\* domains: the list it sets out to check holds every monitored domain
\* exactly once, also when a domain is in both lists.
C21_UnionCheckedOnce ==
  (last.op = "tickStart")
    => /\ Range(queue) = Range(static) \cup Range(kv.dyn)
       /\ \A i, j \in 1..Len(queue) : queue[i] = queue[j] => i = j

\* C22: when notify:D:recent_ips does not parse while an IP change of D is
\* analyzed, the check behaves as if the key were absent: for some answer of
\* the resolver and some behaviour of the webhook, the store and the messages
\* it leaves are those of the same check made without the key (the decision an
\* empty history and the stored last notification give, the history rewritten
\* with the current entry).
C22_CorruptAsAbsent ==
  [][(last'.op = "check" /\ last'.path = "changed" /\ ParseThrows(kv, last'.domain))
       => \E res \in ResolveResults, notifier \in Notifiers :
            \E r \in {checkDomain([kv EXCEPT !.recent[last'.domain] = NoRecent],
                                  last'.domain, res, notifier, now)} :
              /\ r.store = kv'
              /\ r.emitted = last'.emitted]_vars

FourOutcomes == {"oscillation", "dampened", "auto", "notify"}

\* the entries of a history that are newer than seven days at instant t
WithinSevenDays(sets, t) ==
  LET Keep(e) == e.timestamp > t - SevenDays
  IN SelectSeq(sets, Keep)

\* C23: every analyzed (non-first-seen) IP change of D appends exactly one
\* entry {sorted current IPs, now} to notify:D:recent_ips, on each of the
\* four outcomes (suppressed by oscillation, suppressed by the dampening
\* period, auto-suppression notice, regular notification): the new history
\* ends with that entry, and before it come the latest entries of the old
\* history that are within seven days, up to ten entries in all.
C23_HistoryAppend ==
  [][(last'.op = "check" /\ last'.decision.outcome \in FourOutcomes)
       => LET d == last'.domain
              old == WithinSevenDays(RecentSets(kv, d), now)
              new == RecentSets(kv', d)
              kept == Len(new) - 1
          IN /\ "recent" \in last'.writes
             /\ new # <<>>
             /\ new[Len(new)] = [ips |-> kv'.ips[d].val, timestamp |-> now]
             /\ IsSortedIps(new[Len(new)].ips)
             /\ kept = (IF Len(old) < MaxRecent THEN Len(old) ELSE MaxRecent - 1)
             /\ SubSeq(new, 1, kept) = SubSeq(old, Len(old) - kept + 1, Len(old))]_vars

\* a change suppressed by the oscillation override, recorded in the history
C23_Witness ==
  /\ Checked
  /\ last.decision.outcome = "oscillation"
  /\ last.emitted = <<>>
  /\ RecentSets(kv, last.domain)[Len(RecentSets(kv, last.domain))]
       = [ips |-> kv.ips[last.domain].val, timestamp |-> now]
  /\ ~kv.nlast[last.domain].has \/ kv.nlast[last.domain].val < now

\* the domain has been seen: one of its three dns keys holds something
Monitored(store, d) ==
  ~(store.state[d] = "" /\ (~store.ips[d].has \/ store.ips[d].val = <<>>) /\ store.serial[d] = "")

\* the serial an answer carries, "unknown" when it has no SOA record
SerialOf(res) == IF res.serial = "" THEN "unknown" ELSE res.serial

ZoneMessages(emitted) == {i \in 1..Len(emitted) : emitted[i].kind = "DNSZoneUpdated"}

\* C24: for a domain already monitored, a check whose sorted A records equal
\* the stored ones and whose SOA serial differs from the stored one hands
\* exactly one DNSZoneUpdated message to the webhook, first of its messages,
\* and writes dns:D:serial only: every other key is as before, and the time
\* since the last notification plays no part.
C24_SerialOnly ==
  [][\A res \in ResolveResults, notifier \in Notifiers :
       (/\ last'.op = "check"
        /\ res.kind = "answer"
        /\ Monitored(kv, last'.domain)
        /\ SortIps(res.ips) = SortIps(kv.ips[last'.domain].val)
        /\ SerialOf(res) # kv.serial[last'.domain]
        /\ Check(res, notifier))
       => /\ Cardinality(ZoneMessages(last'.emitted)) = 1
          /\ last'.emitted[1].kind = "DNSZoneUpdated"
          /\ last'.writes = {"serial"}
          /\ kv' = [kv EXCEPT !.serial[last'.domain] = SerialOf(res)]]_vars

\* a zone update announced a minute after a change of the domain was notified
C24_Witness ==
  /\ Checked
  /\ last.emitted = <<Msg("DNSZoneUpdated", last.domain, TRUE)>>
  /\ last.writes = {"serial"}
  /\ kv.nlast[last.domain].has
  /\ now - kv.nlast[last.domain].val = Minute
  /\ kv.serial[last.domain] = "s2"

\* ------------------------------------------------------------------------
\* The analysis of one change, alone: the classifier and the calculator on
\* a change of a domain with no history
\* ------------------------------------------------------------------------
ChangeIps == {<<>>, <<IpA>>, <<IpB>>, <<IpA, IpB>>, <<IpC, IpB>>}

ChangeTtls == {30, 59, 60, 299, 300, 450, 899, 900, 3600}

\* Tuesday 01:00, 04:00, 07:00, 10:00, 18:30, 20:00 and 23:00, Saturday 10:00
ChangeInstants ==
  {Start - 9 * oneHour, Start - 6 * oneHour, Start - 3 * oneHour, Start,
   Start + 8 * oneHour + 30 * Minute, Start + 10 * oneHour, Start + 13 * oneHour,
   Start + 4 * OneDay}

InitChange ==
  /\ now \in ChangeInstants
  /\ static = <<>>
  /\ kv = EmptyStore
  /\ running = FALSE
  /\ queue = <<>>
  /\ ticks = 0
  /\ cmds = 0
  /\ autoAt = [d \in Domains |-> 0]
  /\ cleared = [d \in Domains |-> "no"]
  /\ \E previousIPs \in ChangeIps, currentIPs \in ChangeIps, ttl \in ChangeTtls :
       /\ previousIPs # currentIPs
       /\ last = [op |-> "change", previousIPs |-> previousIPs, currentIPs |-> currentIPs,
                  ttl |-> ttl, context |-> [changeType |-> "none", severity |-> "none"],
                  base |-> 0, period |-> 0]

AnalyzeChange ==
  /\ last.op = "change"
  /\ \E context \in {analyzeChange(last.previousIPs, last.currentIPs, last.ttl, now)} :
       last' = [last EXCEPT
                  !.op = "analyzed",
                  !.context = [changeType |-> context.changeType, severity |-> context.severity],
                  !.base = getBaseDampening(context.ttl),
                  !.period = calculateIntelligentDampening(
                               context, detectProvider(last.currentIPs), analyzePattern(<<>>, now),
                               analyzeTimePatterns(now), <<>>, now)]
  /\ UNCHANGED <<now, static, kv, running, queue, ticks, cmds, autoAt, cleared>>

NextChange == AnalyzeChange

SpecChange == InitChange /\ [][NextChange]_vars

\* the change type of a pair of address sets, as the classifier's rules word it
TypeOf(previousIPs, currentIPs) ==
  IF previousIPs = <<>> THEN "addition"
  ELSE IF currentIPs = <<>> THEN "removal"
  ELSE IF Range(previousIPs) \cap Range(currentIPs) = {} THEN "complete_change"
  ELSE "replacement"

BusinessHours(t) == getUTCHours(t) \in 8..18 /\ getUTCDay(t) \in 1..5

MaintenanceWindow(t) == getUTCHours(t) \in (0..6) \cup {22, 23}

\* C25 as stated: critical for a complete change in business hours,
\* otherwise high for a removal, otherwise low in the maintenance window,
\* otherwise medium (so a complete change out of business hours and out of
\* the maintenance window is medium).
C25_Original ==
  (last.op = "analyzed")
    => last.context.severity =
         (IF last.context.changeType = "complete_change" /\ BusinessHours(now) THEN "critical"
          ELSE IF last.context.changeType = "removal" THEN "high"
          ELSE IF MaintenanceWindow(now) THEN "low"
          ELSE "medium")

\* C25, amended: critical for a complete change in business hours, otherwise
\* high for a removal, otherwise low in the maintenance window, otherwise
\* high for a complete change, otherwise medium.
C25_BaseSeverity ==
  (last.op = "analyzed")
    => /\ last.context.changeType = TypeOf(last.previousIPs, last.currentIPs)
       /\ last.context.severity =
            (IF last.context.changeType = "complete_change" /\ BusinessHours(now) THEN "critical"
             ELSE IF last.context.changeType = "removal" THEN "high"
             ELSE IF MaintenanceWindow(now) THEN "low"
             ELSE IF last.context.changeType = "complete_change" THEN "high"
             ELSE "medium")

\* a complete change on a Tuesday at 20:00: neither business hours nor
\* maintenance window, severity high
C25_Witness ==
  /\ last.op = "analyzed"
  /\ last.context.changeType = "complete_change"
  /\ ~BusinessHours(now)
  /\ ~MaintenanceWindow(now)
  /\ last.context.severity = "high"

\* the larger of a number of seconds and five minutes, in milliseconds
AtLeastFiveMinutes(seconds) == IF seconds * 1000 > 5 * Minute THEN seconds * 1000 ELSE 5 * Minute

\* C26: getBaseDampening(ttl) is 20 min for ttl < 60, 15 min for
\* 60 <= ttl < 300, max(2 * ttl s, 5 min) for 300 <= ttl < 900 and
\* max(ttl s, 5 min) for ttl >= 900; TTL 59 gives 1 200 000 ms, TTL 60 and
\* 299 give 900 000 ms, TTL 300 gives 600 000 ms.
C26_BaseDampening ==
  (last.op = "analyzed")
    => /\ last.base = (IF last.ttl < 60 THEN 20 * Minute
                       ELSE IF last.ttl < 300 THEN 15 * Minute
                       ELSE IF last.ttl < 900 THEN AtLeastFiveMinutes(2 * last.ttl)
                       ELSE AtLeastFiveMinutes(last.ttl))
       /\ (last.ttl = 59) => (last.base = 1200000)
       /\ (last.ttl \in {60, 299}) => (last.base = 900000)
       /\ (last.ttl = 300) => (last.base = 600000)

\* the base period at the threshold of 300 seconds
C26_Witness ==
  /\ last.op = "analyzed"
  /\ last.ttl = 300
  /\ last.base = 600000

\* the change from {5.5.5.5} to {9.9.9.9} on Tuesday at 10:00 UTC, TTL 3600,
\* analyzed
BusinessHoursCase ==
  /\ last.op = "analyzed"
  /\ last.previousIPs = <<IpA>>
  /\ last.currentIPs = <<IpB>>
  /\ last.ttl = 3600
  /\ now = Start

\* C27 as stated: the change is a complete_change of severity critical and
\* the period of the calculator is 18 min (1 080 000 ms).
C27_Original ==
  BusinessHoursCase
    => /\ last.context = [changeType |-> "complete_change", severity |-> "critical"]
       /\ last.period = 1080000

\* C27, amended: Tuesday 10:00 is in business hours, 9.9.9.9 matches no CDN
\* range and an empty history shows no load balancer; the change is a
\* complete_change of severity critical, and the period is
\* 3 600 000 ms x 0.8 (business hours) x 0.3 (critical) = 864 000 ms.
C27_BusinessHoursChange ==
  BusinessHoursCase
    => /\ getUTCDay(now) = 2 /\ getUTCHours(now) = 10
       /\ ~detectProvider(last.currentIPs).isAnyCDN
       /\ ~analyzePattern(<<>>, now).isLoadBalancer
       /\ last.context = [changeType |-> "complete_change", severity |-> "critical"]
       /\ last.base = 3600000
       /\ last.period = 864000

C27_Witness == BusinessHoursCase /\ last.period = 864000

\* ------------------------------------------------------------------------
\* IntelligentNotificationBuilder.getSmartTitle, alone.  Titles are written
\* without the pictograph that leads them.
\* ------------------------------------------------------------------------
\* a title chosen with the severity looked at first
getSmartTitleSeverityFirst(context, cdnInfo, lbInfo, timeInfo, coordinatedInfo) ==
  IF context.severity = "critical" THEN "Critical DNS Change Detected"
  ELSE IF coordinatedInfo.isCoordinated THEN "Coordinated Infrastructure Change Detected"
  ELSE IF lbInfo.isLoadBalancer /\ lbInfo.pattern = "failover" THEN "Load Balancer Failover Detected"
  ELSE IF cdnInfo.isAnyCDN THEN "CDN Configuration Change"
  ELSE IF timeInfo.isMaintenanceWindow THEN "DNS Change During Maintenance Window"
  ELSE IF context.changeType = "complete_change" THEN "Complete IP Address Change"
  ELSE "DNS Change Detected"

\* coordinatedInfo is undefined when no query was made: isCoordinated FALSE
getSmartTitle(context, cdnInfo, lbInfo, timeInfo, coordinatedInfo) ==
  IF coordinatedInfo.isCoordinated THEN "Coordinated Infrastructure Change Detected"
  ELSE IF context.severity = "critical" THEN "Critical DNS Change Detected"
  ELSE IF lbInfo.isLoadBalancer /\ lbInfo.pattern = "failover" THEN "Load Balancer Failover Detected"
  ELSE IF cdnInfo.isAnyCDN THEN "CDN Configuration Change"
  ELSE IF timeInfo.isMaintenanceWindow THEN "DNS Change During Maintenance Window"
  ELSE IF context.changeType = "complete_change" THEN "Complete IP Address Change"
  ELSE "DNS Change Detected"

TitleSeverities == {"critical", "high", "medium", "low"}

TitleChangeTypes == {"addition", "removal", "replacement", "complete_change"}

\* what analyzePattern and the coordinated upgrade can give
TitleLbInfos ==
  {NoLb} \cup {[isLoadBalancer |-> TRUE, pattern |-> p, confidence |-> <<7, 10>>] :
                 p \in {"round_robin", "weighted", "failover"}}

InitTitle ==
  /\ now = Start
  /\ static = <<>>
  /\ kv = EmptyStore
  /\ running = FALSE
  /\ queue = <<>>
  /\ ticks = 0
  /\ cmds = 0
  /\ autoAt = [d \in Domains |-> 0]
  /\ cleared = [d \in Domains |-> "no"]
  /\ \E severity \in TitleSeverities, changeType \in TitleChangeTypes, lbInfo \in TitleLbInfos,
        isAnyCDN \in BOOLEAN, isMaintenanceWindow \in BOOLEAN, isCoordinated \in BOOLEAN :
       last = [op |-> "embed",
               context |-> [severity |-> severity, changeType |-> changeType],
               cdnInfo |-> [isAnyCDN |-> isAnyCDN],
               lbInfo |-> lbInfo,
               timeInfo |-> [isMaintenanceWindow |-> isMaintenanceWindow],
               coordinatedInfo |-> [isCoordinated |-> isCoordinated],
               title |-> ""]

BuildTitle ==
  /\ last.op = "embed"
  /\ last' = [last EXCEPT
                !.op = "titled",
                !.title = getSmartTitle(last.context, last.cdnInfo, last.lbInfo, last.timeInfo,
                                        last.coordinatedInfo)]
  /\ UNCHANGED <<now, static, kv, running, queue, ticks, cmds, autoAt, cleared>>

NextTitle == BuildTitle

SpecTitle == InitTitle /\ [][NextTitle]_vars

\* the rules of the title, in their order: <<applies, title>>
TitleRules(c) ==
  <<<<c.coordinatedInfo.isCoordinated, "Coordinated Infrastructure Change Detected">>,
    <<c.context.severity = "critical", "Critical DNS Change Detected">>,
    <<c.lbInfo.pattern = "failover", "Load Balancer Failover Detected">>,
    <<c.cdnInfo.isAnyCDN, "CDN Configuration Change">>,
    <<c.timeInfo.isMaintenanceWindow, "DNS Change During Maintenance Window">>,
    <<c.context.changeType = "complete_change", "Complete IP Address Change">>,
    <<TRUE, "DNS Change Detected">>>>

\* C28: the title is that of the first rule that applies, in the order
\* coordinated, critical severity, failover pattern, any CDN, maintenance
\* window, complete_change, and 'DNS Change Detected' when none does, for
\* every combination of inputs.
C28_TitleFirstMatch ==
  (last.op = "titled")
    => \E i \in 1..Len(TitleRules(last)) :
         /\ TitleRules(last)[i][1]
         /\ \A j \in 1..(i - 1) : ~TitleRules(last)[j][1]
         /\ last.title = TitleRules(last)[i][2]

\* every rule but the last applies: the coordinated title wins
C28_Witness ==
  /\ last.op = "titled"
  /\ \A i \in 1..6 : TitleRules(last)[i][1]
  /\ last.title = "Coordinated Infrastructure Change Detected"

\* ------------------------------------------------------------------------
\* The CDN detector on an address set and on an extension of it
\* ------------------------------------------------------------------------
\* addresses outside the table, inside it, and on the two ends of a range
DetectPool == {IpA, IpD, IpC, IpE, <<13, 35, 255, 255>>, <<13, 36, 0, 0>>}

\* the address lists without repetition of at most n addresses of the pool
DetectLists(n) ==
  {ips \in UNION {[1..k -> DetectPool] : k \in 0..n} :
     \A i, j \in 1..Len(ips) : i # j => ips[i] # ips[j]}

InitDetect ==
  /\ now = Start
  /\ static = <<>>
  /\ kv = EmptyStore
  /\ running = FALSE
  /\ queue = <<>>
  /\ ticks = 0
  /\ cmds = 0
  /\ autoAt = [d \in Domains |-> 0]
  /\ cleared = [d \in Domains |-> "no"]
  /\ \E ips \in DetectLists(2), more \in DetectLists(3) :
       /\ Range(ips) \subseteq Range(more)
       /\ last = [op |-> "addresses", ips |-> ips, more |-> more,
                  cdnInfo |-> detectProvider(<<>>), cdnMore |-> detectProvider(<<>>)]

Detect ==
  /\ last.op = "addresses"
  /\ last' = [last EXCEPT !.op = "detected",
                          !.cdnInfo = detectProvider(last.ips),
                          !.cdnMore = detectProvider(last.more)]
  /\ UNCHANGED <<now, static, kv, running, queue, ticks, cmds, autoAt, cleared>>

NextDetect == Detect

SpecDetect == InitDetect /\ [][NextDetect]_vars

\* the confidence matches / totalIPs of a is at least that of b (0 for no address)
ConfidenceAtLeast(a, b) ==
  \/ b.totalIPs = 0
  \/ /\ a.totalIPs > 0
     /\ a.matches * b.totalIPs >= b.matches * a.totalIPs

InCdnTable(ip) ==
  \E i \in 1..Len(ENHANCED_CDN_RANGES) :
    /\ NumLeq(ipToNumber(ENHANCED_CDN_RANGES[i][2]), ipToNumber(ip))
    /\ NumLeq(ipToNumber(ip), ipToNumber(ENHANCED_CDN_RANGES[i][3]))

\* C29: when an address set is extended by addresses that all lie inside a range
\* of the CDN table, the confidence of the detector on the extended set is at
\* least its confidence on the original set.
C29_CdnMonotone ==
  (/\ last.op = "detected"
   /\ \A ip \in Range(last.more) \ Range(last.ips) : InCdnTable(ip))
  => ConfidenceAtLeast(last.cdnMore, last.cdnInfo)

\* a set with one address of the table among two is extended by an address of
\* another provider
C29_Witness ==
  /\ last.op = "detected"
  /\ last.ips = <<IpA, IpC>>
  /\ last.more = <<IpA, IpC, IpE>>
  /\ last.cdnInfo.matches = 1
  /\ last.cdnMore.matches = 2

\* ------------------------------------------------------------------------
\* The load balancer classifier on bounded histories
\* ------------------------------------------------------------------------
MaxHistory == 5

PatternIps == {<<IpA>>, <<IpB>>, <<IpA, IpB>>, <<IpC>>, <<IpC, IpB>>}

\* the time from an entry to the next one (from the last entry to the call)
PatternGaps == {Minute, 30 * Minute}

\* the time from entry i of a list of steps to the call
RECURSIVE AgeOf(_, _)
AgeOf(steps, i) == IF i > Len(steps) THEN 0 ELSE steps[i][2] + AgeOf(steps, i + 1)

HistoryOf(steps, at) ==
  [i \in 1..Len(steps) |-> [ips |-> steps[i][1], timestamp |-> at - AgeOf(steps, i)]]

InitPattern ==
  /\ now = Start
  /\ static = <<>>
  /\ kv = EmptyStore
  /\ running = FALSE
  /\ queue = <<>>
  /\ ticks = 0
  /\ cmds = 0
  /\ autoAt = [d \in Domains |-> 0]
  /\ cleared = [d \in Domains |-> "no"]
  /\ \E k \in 0..MaxHistory : \E steps \in [1..k -> PatternIps \X PatternGaps] :
       last = [op |-> "history", recentIPSets |-> HistoryOf(steps, Start), lbInfo |-> NoLb]

AnalyzePattern ==
  /\ last.op = "history"
  /\ last' = [last EXCEPT !.op = "pattern",
                          !.lbInfo = analyzePattern(last.recentIPSets, now)]
  /\ UNCHANGED <<now, static, kv, running, queue, ticks, cmds, autoAt, cleared>>

NextPattern == AnalyzePattern

SpecPattern == InitPattern /\ [][NextPattern]_vars

\* the positions of a history within the last hour
InWindow(h, at) == {i \in 1..Len(h) : at - h[i].timestamp < 60 * Minute}

\* how often the address set of position i occurs within the last hour
Occurrences(h, at, i) == Cardinality({j \in InWindow(h, at) : h[j].ips = h[i].ips})

\* the most frequent address set occurs more than 1.5 times as often as the
\* second most frequent one
TopExceedsSecond(h, at) ==
  \E i \in InWindow(h, at) :
    \A j \in InWindow(h, at) :
      h[j].ips # h[i].ips => 2 * Occurrences(h, at, i) > 3 * Occurrences(h, at, j)

\* some gap between neighbours of the window exceeds three times the mean gap
LargeGap(h, at) ==
  LET w == InWindow(h, at)
      first == CHOOSE i \in w : \A j \in w : i <= j
      final == CHOOSE i \in w : \A j \in w : j <= i
  IN \E i \in w \ {final} :
       (h[i + 1].timestamp - h[i].timestamp) * (Cardinality(w) - 1)
         > 3 * (h[final].timestamp - h[first].timestamp)

PatternRules(h, at) ==
  LET N == Cardinality(InWindow(h, at))
      U == Cardinality({h[i].ips : i \in InWindow(h, at)})
  IN IF N < 3 THEN <<"unknown", <<0, 1>>>>
     ELSE IF N >= 5 /\ 2 <= U /\ U <= 3 THEN <<"round_robin", <<8, 10>>>>
     ELSE IF 2 <= U /\ U <= 4 /\ TopExceedsSecond(h, at) THEN <<"weighted", <<7, 10>>>>
     ELSE IF LargeGap(h, at) /\ U <= 2 THEN <<"failover", <<6, 10>>>>
     ELSE <<"unknown", <<0, 1>>>>

\* C30: with N the entries of the last hour and U their distinct address sets,
\* the classifier answers unknown for N < 3, else round_robin (0.8) for N >= 5
\* and 2 <= U <= 3, else weighted (0.7) for 2 <= U <= 4 with the top frequency
\* above 1.5 times the second, else failover (0.6) for a gap above three times
\* the mean gap and U <= 2, else unknown; three entries never give round_robin.
C30_PatternRules ==
  last.op = "pattern" =>
    /\ <<last.lbInfo.pattern, last.lbInfo.confidence>> = PatternRules(last.recentIPSets, now)
    /\ last.lbInfo.isLoadBalancer <=> last.lbInfo.pattern # "unknown"
    /\ Cardinality(InWindow(last.recentIPSets, now)) = 3 => last.lbInfo.pattern # "round_robin"

\* three entries within the hour that alternate between two address sets
C30_Witness ==
  /\ last.op = "pattern"
  /\ Len(last.recentIPSets) = 4
  /\ Cardinality(InWindow(last.recentIPSets, now)) = 3
  /\ Cardinality({last.recentIPSets[i].ips : i \in InWindow(last.recentIPSets, now)}) = 2
  /\ last.lbInfo.pattern = "weighted"

\* ------------------------------------------------------------------------
\* A domain whose last change came long after three quick ones
\* ------------------------------------------------------------------------
\* three changes a minute apart, a fourth half an hour later, between two
\* address sets
FailoverScript ==
  <<Step(0, Answer(<<IpD>>, 300, "s1")),
    Step(Minute, Answer(<<IpC>>, 300, "s1")),
    Step(Minute, Answer(<<IpD>>, 300, "s1")),
    Step(Minute, Answer(<<IpC>>, 300, "s1")),
    Step(30 * Minute, Answer(<<IpD>>, 300, "s1"))>>

FailoverDuration == 34 * Minute

FailoverStore ==
  RunScript([EmptyStore EXCEPT !.version = WorkerVersion], Start - FailoverDuration, D1,
            FailoverScript)

InitFailover ==
  /\ now = Start
  /\ static = <<D1>>
  /\ kv = FailoverStore
  /\ running = FALSE
  /\ queue = <<>>
  /\ ticks = 0
  /\ cmds = 0
  /\ autoAt = [d \in Domains |-> 0]
  /\ cleared = [d \in Domains |-> "no"]
  /\ last = Did("init", D1, "none", "none", <<>>, FALSE, {}, NoDecision, NoPre, 0, <<>>)

NextFailover ==
  \/ \E dt \in Deltas, notifier \in Notifiers : TickStart(dt, notifier)
  \/ \E res \in ResolveResults, notifier \in Notifiers : Check(res, notifier)

SpecFailover == InitFailover /\ [][NextFailover]_vars

\* four entries, all within the last hour, of two address sets, the last gap
\* more than three times each of the gaps before it
LateSwitch(h, at) ==
  /\ Len(h) = 4
  /\ InWindow(h, at) = 1..4
  /\ Cardinality({SortIps(h[i].ips) : i \in 1..4}) = 2
  /\ \A i \in 1..2 : h[4].timestamp - h[3].timestamp > 3 * (h[i + 1].timestamp - h[i].timestamp)

\* C31: a change with TTL 300, seen during business hours for a domain whose
\* history holds four entries of the last hour, of two address sets, the last
\* gap far larger than the others, is classified as failover and its severity
\* is high.
C31_FailoverScenario ==
  [][\A res \in ResolveResults, notifier \in Notifiers :
       (/\ last'.op = "check"
        /\ res.kind = "answer"
        /\ res.ttl = 300
        /\ BusinessHours(now)
        /\ LateSwitch(RecentSets(kv, last'.domain), now)
        /\ SortIps(res.ips) # SortIps(kv.ips[last'.domain].val)
        /\ \E i \in 1..4 : SortIps(res.ips) = SortIps(RecentSets(kv, last'.domain)[i].ips)
        /\ Check(res, notifier))
       => /\ last'.decision.pattern = "failover"
          /\ last'.decision.severity = "high"]_vars

\* what the scenario gives: no pattern, and the severity of a complete change
\* during business hours
C31_Observed ==
  /\ last.op = "check"
  /\ last.pre.recentLen = 4
  /\ now = Start + Minute
  /\ last.res = "answer"
  /\ last.decision.outcome # "none"
  /\ last.decision.pattern = "unknown"
  /\ ~last.decision.isLoadBalancer
  /\ last.decision.severity = "critical"

\* ------------------------------------------------------------------------
\* detectCoordinatedInfrastructureChange on bounded buckets
\* ------------------------------------------------------------------------
D3 == <<"c", "ex", "com">>
D4 == <<"a", "other", "org">>

\* the target, two siblings and a domain under another parent
BucketDomains == {D1, D2, D3, D4}

BucketIps == {<<IpA>>, <<IpB>>, <<IpA, IpB>>}

\* minutes before the call, within the bucket of the call
BucketAges == {Minute, 3 * Minute}

MaxBucket == 3

TargetIps == {<<IpA>>, <<IpC>>, <<IpA, IpB>>}

\* the entries earlier changes have left in the bucket, in the order of their
\* instants
Buckets(at) ==
  {[i \in 1..Len(es) |-> [domain |-> es[i][1], ips |-> es[i][2], timestamp |-> at - es[i][3]]] :
     es \in {s \in UNION {[1..k -> BucketDomains \X BucketIps \X BucketAges] : k \in 0..MaxBucket} :
               \A i \in 1..(Len(s) - 1) : s[i][3] >= s[i + 1][3]}}

InitBucket ==
  /\ now = PairStart
  /\ static = <<D1>>
  /\ running = FALSE
  /\ queue = <<>>
  /\ ticks = 0
  /\ cmds = 0
  /\ autoAt = [d \in Domains |-> 0]
  /\ cleared = [d \in Domains |-> "no"]
  /\ \E entries \in Buckets(PairStart), currentIPs \in TargetIps :
       /\ kv = [EmptyStore EXCEPT
                  !.global = IF entries = <<>> THEN {}
                             ELSE {[bucket |-> BucketOf(PairStart), entries |-> entries,
                                    exp |-> entries[Len(entries)].timestamp + GlobalTtl]}]
       /\ last = [op |-> "change", domain |-> D1, currentIPs |-> currentIPs,
                  changes |-> entries, info |-> NoCoordination(EmptyStore)]

DetectCoordinated ==
  /\ last.op = "change"
  /\ \E r \in {detectCoordinatedInfrastructureChange(kv, last.domain, last.currentIPs, now)} :
       /\ kv' = r.store
       /\ last' = [last EXCEPT !.op = "coordination", !.info = [r EXCEPT !.store = EmptyStore]]
  /\ UNCHANGED <<now, static, running, queue, ticks, cmds, autoAt, cleared>>

NextBucket == DetectCoordinated

SpecBucket == InitBucket /\ [][NextBucket]_vars

\* the entries of the window left by other domains of the target's parent
RelatedEntries(changes, d, at) ==
  {i \in 1..Len(changes) :
     /\ changes[i].timestamp > at - 10 * Minute
     /\ changes[i].domain # d
     /\ SubSeq(changes[i].domain, Len(changes[i].domain) - 1, Len(changes[i].domain))
          = SubSeq(d, Len(d) - 1, Len(d))}

RelatedIps(changes, d, at) == UNION {Range(changes[i].ips) : i \in RelatedEntries(changes, d, at)}

\* 0.3 x related + 0.7 x shared / most, in tenths of most: <<numerator, most>>
ScoreOf(changes, d, currentIPs, at) ==
  LET related == Cardinality(RelatedEntries(changes, d, at))
      shared == Cardinality(RelatedIps(changes, d, at) \cap Range(currentIPs))
      most == Max2(Cardinality(RelatedIps(changes, d, at)), Cardinality(Range(currentIPs)))
  IN <<3 * related * most + 7 * shared, most>>

\* C32: the overlap ratio counts the addresses the target's current set shares
\* with the related entries (same parent, other domain) over the larger of
\* the related addresses and the target's; the change is coordinated exactly
\* when there are two or more related entries and
\* min(1, 0.3 x related + 0.7 x ratio) > 0.6.  A target that shares no address
\* with exactly two related entries is not coordinated, and entries of
\* other parents play no part.
C32_CoordinationScore ==
  last.op = "coordination" =>
    LET score == ScoreOf(last.changes, last.domain, last.currentIPs, now)
        related == Cardinality(RelatedEntries(last.changes, last.domain, now))
    IN /\ last.info.isCoordinated <=> (related >= 2 /\ score[1] > 6 * score[2])
       /\ (related = 2 /\ RelatedIps(last.changes, last.domain, now) \cap Range(last.currentIPs) = {})
            => ~last.info.isCoordinated

\* the target's addresses are shared with no entry of the two siblings, and
\* the change is coordinated
C32_Observed ==
  /\ last.op = "coordination"
  /\ last.currentIPs = <<IpC>>
  /\ Len(last.changes) = 2
  /\ last.changes[1].domain = D2 /\ last.changes[2].domain = D3
  /\ last.info.isCoordinated
  /\ last.info.confidence = <<19, 20>>

\* C37: a change is coordinated only if two or more distinct sibling domains
\* (same two-label parent, other than the target) changed within the window.
C37_DistinctSiblings ==
  (last.op = "coordination" /\ last.info.isCoordinated)
    => Cardinality({last.changes[i].domain : i \in RelatedEntries(last.changes, last.domain, now)}) >= 2

\* one sibling is in the bucket twice and nothing else, and the change is
\* coordinated
C37_Observed ==
  /\ last.op = "coordination"
  /\ Len(last.changes) = 2
  /\ last.changes[1].domain = D2 /\ last.changes[2].domain = D2
  /\ last.info.isCoordinated

\* ------------------------------------------------------------------------
\* Two configured siblings, one of which has just changed twice
\* ------------------------------------------------------------------------
SiblingStart == Start + 2 * Minute

\* D1 and D2 were first seen at the start of the five-minute bucket; D2 has
\* changed one and two minutes later
SiblingStore ==
  RunScript(RunScript([EmptyStore EXCEPT !.version = WorkerVersion], Start, D1,
                      <<Step(0, Answer(<<IpD>>, 300, "s1"))>>),
            Start, D2,
            <<Step(0, Answer(<<IpF>>, 300, "s1")),
              Step(Minute, Answer(<<IpD>>, 300, "s1")),
              Step(Minute, Answer(<<IpF>>, 300, "s1"))>>)

InitSiblings ==
  /\ now = SiblingStart
  /\ static = <<D1, D2>>
  /\ kv = SiblingStore
  /\ running = FALSE
  /\ queue = <<>>
  /\ ticks = 0
  /\ cmds = 0
  /\ autoAt = [d \in Domains |-> 0]
  /\ cleared = [d \in Domains |-> "no"]
  /\ last = Did("init", D1, "none", "none", <<>>, FALSE, {}, NoDecision, NoPre, 0, <<>>)

NextSiblings ==
  \/ \E dt \in PairDeltas : TickStart(dt, "ok")
  \/ \E res \in PairResults : Check(res, "ok")

SpecSiblings == InitSiblings /\ [][NextSiblings]_vars

SeverityRank(severity) ==
  CASE severity = "low" -> 1
    [] severity = "medium" -> 2
    [] severity = "high" -> 3
    [] severity = "critical" -> 4
    [] OTHER -> 0

\* C33: a change found coordinated is given a round_robin load-balancer result
\* and its severity is upgraded to high: the severity of the notification is
\* never below the severity the classifier gave the change.
C33_CoordinatedUpgrade ==
  [][\A res \in PairResults :
       (/\ last'.op = "check"
        /\ res.kind = "answer"
        /\ Check(res, "ok")
        /\ last'.decision.isCoordinated)
       => /\ last'.decision.isLoadBalancer
          /\ last'.decision.pattern = "round_robin"
          /\ SeverityRank(last'.decision.severity)
               >= SeverityRank(analyzeChange(kv.ips[last'.domain].val, SortIps(res.ips),
                                             res.ttl, now).severity)]_vars

\* a complete change during business hours, found coordinated, is notified
\* with severity high
C33_Observed ==
  /\ last.op = "check"
  /\ last.domain = D1
  /\ last.decision.isCoordinated
  /\ last.decision.changeType = "complete_change"
  /\ BusinessHours(now)
  /\ last.decision.outcome = "notify"
  /\ last.decision.severity = "high"

\* ------------------------------------------------------------------------
\* Authority lost, regained and lost again
\* ------------------------------------------------------------------------
\* C34: after a check of a monitored domain that was answered by a reachable
\* authority, dns:D:state is "resolved", so that the next loss of authority
\* is a transition and is notified.
C34_AuthorityRegained ==
  (Checked /\ last.res = "answer" /\ last.pre.state # "")
    => kv.state[last.domain] = "resolved"

\* the authority was unreachable, then answered what is stored: nothing is
\* written and the state still says no_authority
C34_Observed ==
  /\ Checked /\ last.res = "answer"
  /\ last.pre.state = "no_authority"
  /\ last.path = "noChange"
  /\ last.writes = {}
  /\ kv.state[last.domain] = "no_authority"

\* ------------------------------------------------------------------------
\* A domain removed by command and added again
\* ------------------------------------------------------------------------
\* D1 was added by command, first seen two minutes ago and changed a minute
\* ago; it has then been removed and added again
ReaddedStore ==
  handleAddDomain(
    handleRemoveDomain(
      RunScript([EmptyStore EXCEPT !.version = WorkerVersion, !.dyn = <<D1>>],
                Start - 2 * Minute, D1,
                <<Step(0, Answer(<<IpD>>, 300, "s1")), Step(Minute, Answer(<<IpC>>, 300, "s1"))>>),
      D1).store,
    D1).store

InitReadded ==
  /\ now = Start
  /\ static = <<>>
  /\ kv = ReaddedStore
  /\ running = FALSE
  /\ queue = <<>>
  /\ ticks = 0
  /\ cmds = 0
  /\ autoAt = [d \in Domains |-> 0]
  /\ cleared = [d \in Domains |-> "no"]
  /\ last = Did("init", D1, "none", "none", <<>>, FALSE, {}, NoDecision, NoPre, 0, <<>>)

\* no failure and one writer at a time: the resolver answers, the webhook
\* accepts, and no command runs
NextReadded ==
  \/ \E dt \in Deltas : TickStart(dt, "ok")
  \/ \E res \in ResolveResults \ {ResolveError} : Check(res, "ok")

SpecReadded == InitReadded /\ [][NextReadded]_vars

\* no two neighbours of a history hold the same address set
NeighboursDiffer(h) == \A i \in 1..(Len(h) - 1) : SortIps(h[i].ips) # SortIps(h[i + 1].ips)

\* C35: in a run without failure and with one writer no two consecutive
\* entries of notify:D:recent_ips hold the same address set, the last entry
\* of a non-empty history holds the addresses of dns:D:ips, and two or more
\* entries of the last hour hold two or more distinct address sets.
C35_HistoryAlternates ==
  \A d \in Domains :
    /\ NeighboursDiffer(RecentSets(kv, d))
    /\ (RecentSets(kv, d) # <<>> /\ kv.ips[d].has)
         => RecentSets(kv, d)[Len(RecentSets(kv, d))].ips = SortIps(kv.ips[d].val)
    /\ Cardinality(InWindow(RecentSets(kv, d), now)) >= 2
         => Cardinality({RecentSets(kv, d)[i].ips : i \in InWindow(RecentSets(kv, d), now)}) >= 2

\* the history holds the same address set twice in a row, both within the
\* last hour
C35_Observed ==
  /\ Checked
  /\ Len(RecentSets(kv, D1)) = 2
  /\ RecentSets(kv, D1)[1].ips = RecentSets(kv, D1)[2].ips
  /\ InWindow(RecentSets(kv, D1), now) = {1, 2}

\* ------------------------------------------------------------------------
\* The classifier on histories of one or two address sets, with entries of
\* the same instant
\* ------------------------------------------------------------------------
GapIps == {<<IpA>>, <<IpB>>}

GapSteps == {0, Minute, 30 * Minute}

InitGaps ==
  /\ now = Start
  /\ static = <<>>
  /\ kv = EmptyStore
  /\ running = FALSE
  /\ queue = <<>>
  /\ ticks = 0
  /\ cmds = 0
  /\ autoAt = [d \in Domains |-> 0]
  /\ cleared = [d \in Domains |-> "no"]
  /\ \E k \in 0..MaxHistory : \E steps \in [1..k -> GapIps \X GapSteps] :
       last = [op |-> "history", recentIPSets |-> HistoryOf(steps, Start), lbInfo |-> NoLb]

NextGaps == AnalyzePattern

SpecGaps == InitGaps /\ [][NextGaps]_vars

CheckedAfterRemoval == Checked /\ ~Includes(AllDomains(static, kv), last.domain)

\* C38: when a domain is removed while a scheduled run that had enumerated it
\* is under way, then after the run has checked it no dns:d:* and no
\* notify:d:* key exists and the check has sent no notification about it.
C38_RemovalWins ==
  CheckedAfterRemoval
    => /\ ~kv.ips[last.domain].has
       /\ kv.serial[last.domain] = ""
       /\ kv.state[last.domain] = ""
       /\ ~kv.nlast[last.domain].has
       /\ ~kv.recent[last.domain].has
       /\ last.emitted = <<>>

\* the run stores the removed domain anew, as if first seen
C38_Observed ==
  /\ CheckedAfterRemoval
  /\ last.path = "firstSeen"
  /\ kv.ips[last.domain].has
  /\ kv.state[last.domain] = "resolved"

\* the run notifies a lost authority of the removed domain
C38_ObservedNotice ==
  /\ CheckedAfterRemoval
  /\ last.res = "noAuthority"
  /\ Kinds(last.emitted) = {"DNSAuthorityUnreachable"}
  /\ kv.state[last.domain] = "no_authority"

\* ------------------------------------------------------------------------
\* Two /add commands at a time.  handleAddDomain reads dynamic:domains,
\* awaits, and writes the list it read with its domain appended.
\* ------------------------------------------------------------------------
AddDomains == {D1, D2, D3}

AddLists == {<<>>, <<D1>>, <<D3>>, <<D1, D2>>}

Calls == {1, 2}

InitAdds ==
  /\ now = Start
  /\ static = <<>>
  /\ running = FALSE
  /\ queue = <<>>
  /\ ticks = 0
  /\ cmds = 0
  /\ autoAt = [d \in Domains |-> 0]
  /\ cleared = [d \in Domains |-> "no"]
  /\ \E domains \in AddLists, a \in AddDomains, b \in AddDomains :
       /\ kv = [EmptyStore EXCEPT !.dyn = domains]
       /\ last = [op |-> "adds",
                  calls |-> [c \in Calls |->
                               [domain |-> IF c = 1 THEN a ELSE b, pc |-> "start",
                                domains |-> <<>>, result |-> ""]]]

\* const domains = await getDynamicDomains(env)
GetDynamicDomains(c) ==
  /\ last.op = "adds"
  /\ last.calls[c].pc = "start"
  /\ last' = [last EXCEPT !.calls[c].pc = "read", !.calls[c].domains = kv.dyn]
  /\ UNCHANGED <<now, static, kv, running, queue, ticks, cmds, autoAt, cleared>>

\* the test for the domain, and saveDynamicDomains with the list that was read
SaveDynamicDomains(c) ==
  /\ last.op = "adds"
  /\ last.calls[c].pc = "read"
  /\ \E r \in {handleAddDomain([kv EXCEPT !.dyn = last.calls[c].domains], last.calls[c].domain)} :
       /\ kv' = IF r.result = "added" THEN [kv EXCEPT !.dyn = r.store.dyn] ELSE kv
       /\ last' = [last EXCEPT !.calls[c].pc = "done", !.calls[c].result = r.result]
  /\ UNCHANGED <<now, static, running, queue, ticks, cmds, autoAt, cleared>>

NextAdds ==
  \/ \E c \in Calls : GetDynamicDomains(c)
  \/ \E c \in Calls : SaveDynamicDomains(c)

SpecAdds == InitAdds /\ [][NextAdds]_vars

\* C39: when two /add commands for different domains have both answered that
\* the domain was added, dynamic:domains holds both domains; and
\* dynamic:domains never holds a domain twice.
C39_NoLostAdd ==
  /\ (/\ last.op = "adds"
      /\ \A c \in Calls : last.calls[c].result = "added"
      /\ last.calls[1].domain # last.calls[2].domain)
       => \A c \in Calls : Includes(kv.dyn, last.calls[c].domain)
  /\ \A i, j \in 1..Len(kv.dyn) : i # j => kv.dyn[i] # kv.dyn[j]

\* both commands have answered "added" and the list holds the second domain
\* only
C39_Observed ==
  /\ last.op = "adds"
  /\ last.calls[1].domain = D1 /\ last.calls[1].result = "added"
  /\ last.calls[2].domain = D2 /\ last.calls[2].result = "added"
  /\ kv.dyn = <<D2>>

====
